---- MODULE Spec2Model ----
(***************************************************************************)
(* State-machine model of the synthetic e-commerce dataset generator       *)
(* (backend/src/utils/data_generator.py) and of the script that drives it  *)
(* (backend/src/01_data_generation.py).                                    *)
(*                                                                         *)
(* Units.  Money is held as an integer number of micro-dollars (1e-6 $),   *)
(* so that every product the code forms (price * multiplier, price *       *)
(* variation, total * rate, subtotal * 0.08) is exact for the draws        *)
(* enumerated below; values the code rounds with round(x, 2) are stored    *)
(* in whole cents.  Dates are day numbers of the year 2024 (1 = Jan 1,     *)
(* 366 = Dec 31); day draws are in tenths of a day, uniform draws in       *)
(* hundredths, rates in percent, price variations in tenths.               *)
(*                                                                         *)
(* Random draws are nondeterministic choices.  Every generator step takes  *)
(* a record D of draw sets (one field per call of the random source), so   *)
(* that each specification enumerates the outcomes its properties are      *)
(* about.  Fields produced by Faker (names, addresses, ...) and the        *)
(* columns no property reads (gender, weight_kg, traffic_source, ...) are  *)
(* not carried.                                                            *)
(*                                                                         *)
(* An operator defined directly above the operator it resembles            *)
(* (ClipMarginNoFloor above ClipMargin, SkippedInverted above Skipped,     *)
(* ...) is a faulty variant of it: each property is also checked to fail   *)
(* when the variant takes the operator's place.                            *)
(***************************************************************************)
EXTENDS Integers, Sequences, FiniteSets, TLC

VARIABLES
    pc,          \* position in main() / generate_all_data()
    cfg,         \* the generator's configuration (self.num_*, self.*_date)
    customers,   \* list `customers` / customers_df
    products,    \* list `products` / products_df
    orders,      \* list `orders` / orders_df
    order_items, \* list `order_items` / order_items_df
    sessions,    \* list `sessions` / sessions_df
    loc,         \* locals of the last iteration of the generate_orders loop
    err,         \* the exception that ended the run ("" while none)
    rng,         \* state of the process-wide random sources (numpy, random, Faker)
    runs,        \* what the calls of generate_all_data() have returned so far
    store,       \* the data directory: CSV files, database file, its tables and views
    resp,        \* the API's last request and its response (NoResp before the first)
    db_manager,  \* the API's global DatabaseManager object (db_path, conn)
    conns,       \* the connections opened so far, each "open" or "closed"
    ret          \* the last DatabaseManager call and what it returned or raised

vars == <<pc, cfg, customers, products, orders, order_items, sessions, loc, err,
          rng, runs, store, resp, db_manager, conns, ret>>

(***************************************************************************)
(* Bounds of the model.                                                    *)
(***************************************************************************)
MaxCustomers == 1
MaxProducts == 2
MaxOrders == 2
MaxSessions == 6
MaxRuns == 2

(***************************************************************************)
(* The random sources.  np.random.seed(42), random.seed(42) and            *)
(* Faker.seed(42) run once, when the module is imported; nothing else in   *)
(* the module seeds.  rng stands for the state of the three sources;       *)
(* every generator step that draws advances it.                            *)
(***************************************************************************)
Seed == 42

\* The state after the draws of one generator step (a full-period
\* congruential step standing for the library's generator).
Advance(s) == (5 * s + 3) % 128

\* The outcome, one of outs, that draw number f of a step yields in state s.
Drawn(outs, s, f) ==
    outs[(((((2 * f + 1) * s) % 128) \div 8) % Len(outs)) + 1]

(***************************************************************************)
(* The data directory (backend/data) before main() has run: no CSV file,   *)
(* no database file.  csv, tables and views list names in the order main() *)
(* writes them; csv_rows[k] and table_rows[k] are the rows written to the  *)
(* k-th file and loaded into the k-th table.                               *)
(***************************************************************************)
EmptyStore == [csv |-> <<>>, csv_rows |-> <<>>, db |-> FALSE, tables |-> <<>>, table_rows |-> <<>>, views |-> <<>>]

\* DatabaseManager.__init__: self.db_path = None, self.conn = None.
NoConn == 0
NewManager == [db_path |-> "", conn |-> NoConn]

\* No DatabaseManager method has been called yet.
NoCall == [op |-> "", conn |-> NoConn, closed |-> FALSE, raised |-> ""]

\* No request has been served yet.
NoResp == [endpoint |-> "", status |-> 0]

(***************************************************************************)
(* Units and arithmetic helpers.                                           *)
(***************************************************************************)
Cent == 10000
Mill == 1000

Max(a, b) == IF a >= b THEN a ELSE b
Min(a, b) == IF a <= b THEN a ELSE b
Abs(a) == IF a >= 0 THEN a ELSE -a

\* x * n / d without forming x * n (exact whenever d divides x * n).
MulDiv(x, n, d) == (x \div d) * n + ((x % d) * n) \div d

RECURSIVE SumSeq(_)
SumSeq(s) == IF s = <<>> THEN 0 ELSE Head(s) + SumSeq(Tail(s))

\* round(x, 2) of a non-negative amount x (micro-dollars), in cents:
\* to the nearest cent, a tie going to the even cent.
Round2(x) ==
    LET q == x \div Cent
        r == x % Cent
    IN  IF 2 * r < Cent THEN q
        ELSE IF 2 * r > Cent THEN q + 1
        ELSE IF q % 2 = 0 THEN q ELSE q + 1

\* int(x) of a number of days held in tenths: truncation toward zero.
IntDays(t) == IF t >= 0 THEN t \div 10 ELSE -((-t) \div 10)

\* The month (1..12) of a day number of 2024.
MonthStart == <<1, 32, 61, 92, 122, 153, 183, 214, 245, 275, 306, 336>>
MonthOf(d) == CHOOSE m \in 1..12 :
                 /\ MonthStart[m] <= d
                 /\ (m = 12 \/ d < MonthStart[m + 1])

Jan1 == 1
Dec31 == 366

(***************************************************************************)
(* Program constants.                                                      *)
(***************************************************************************)
customer_segments == <<"Budget", "Standard", "Premium", "Enterprise">>
acquisition_channels == <<"Organic Search", "Paid Search", "Social Media",
                          "Email Marketing", "Direct", "Referral", "Affiliate">>
product_categories == <<"Electronics", "Clothing", "Home & Garden", "Books",
                        "Sports", "Health & Beauty", "Toys", "Automotive">>

\* category_price_multipliers, in tenths.
category_price_multipliers(c) ==
    CASE c = "Electronics" -> 30
      [] c = "Automotive" -> 25
      [] c = "Home & Garden" -> 18
      [] c = "Health & Beauty" -> 12
      [] c = "Clothing" -> 10
      [] c = "Sports" -> 15
      [] c = "Books" -> 4
      [] c = "Toys" -> 8
      [] OTHER -> 10

MarginFloorPct == 10
MarginCeilPct == 80

Range(s) == {s[k] : k \in DOMAIN s}

(***************************************************************************)
(* generate_products: one catalog row.  base_price is the log-normal draw  *)
(* in mills (> 0), margin_draw the normal draw in percent.                 *)
(***************************************************************************)
\* price = base_price * multiplier, in micro-dollars.
ProductPrice(category, base_price) ==
    MulDiv(base_price * Mill, category_price_multipliers(category), 10)

\* margin_rate = max(0.1, min(0.8, margin_rate)), in percent.
ClipMarginNoFloor(margin_draw) == Min(MarginCeilPct, margin_draw)
ClipMargin(margin_draw) == Max(MarginFloorPct, Min(MarginCeilPct, margin_draw))

\* cost = price * (1 - margin_rate), in micro-dollars.
ProductCost(price, margin_rate) == MulDiv(price, 100 - margin_rate, 100)

ProductRow(i, category, base_price, margin_draw) ==
    LET price == ProductPrice(category, base_price)
        margin_rate == ClipMargin(margin_draw)
        cost == ProductCost(price, margin_rate)
    IN  [product_id |-> i + 1,
         category |-> category,
         price |-> Round2(price),
         cost |-> Round2(cost),
         \* not columns of the table: the unrounded values of this row,
         \* kept so that properties can refer to them
         raw_price |-> price,
         margin_rate |-> margin_rate]

\* One iteration of `for i in range(self.num_products)`.
generate_products_row(D) ==
    /\ pc = "products"
    /\ Len(products) < cfg.num_products
    /\ \E category \in D.category, base_price \in D.base_price,
          margin_draw \in D.margin :
          products' = Append(products,
                             ProductRow(Len(products), category, base_price, margin_draw))
    /\ UNCHANGED <<pc, cfg, customers, orders, order_items, sessions, loc, err>>

\* df = pd.DataFrame(products); the summary print reads df['category'],
\* a column an empty frame does not have (KeyError).
generate_products_return ==
    /\ pc = "products"
    /\ Len(products) = cfg.num_products
    /\ IF products = <<>>
         THEN pc' = "error" /\ err' = "KeyError: 'category'"
         ELSE pc' = "orders" /\ err' = err
    /\ UNCHANGED <<cfg, customers, products, orders, order_items, sessions, loc, rng, runs, store, resp, db_manager, conns, ret>>

\* order_id: the loop variable; month, u: the candidate's month and uniform
\* draw; skipped: whether `continue` was taken; shipping_draw: shipping_cost
\* as drawn on line 215, before max(0, .) (0 for a skipped candidate);
\* num_items: the Poisson draw of line 240 before max(1, .); discount_rate
\* (percent), discount_amount, tax_amount, total_amount (micro-dollars):
\* the locals of lines 265-275, before they are rounded into the row.
NoLoc == [order_id |-> 0, month |-> 0, u |-> 0, skipped |-> FALSE, shipping_draw |-> 0, num_items |-> 0, discount_rate |-> 0, discount_amount |-> 0, tax_amount |-> 0, total_amount |-> 0]

Config(nc, np, no, sd, ed) ==
    [num_customers |-> nc, num_products |-> np, num_orders |-> no,
     start_date |-> sd, end_date |-> ed]

(***************************************************************************)
(* generate_customers.  days_draw is the exponential draw, in tenths of a  *)
(* day (>= 0).                                                             *)
(***************************************************************************)
\* days_back = min(days_back, (end - start).days); end - timedelta(int(days_back))
DateBackNoClip(end_date, start_date, days_draw) == end_date - IntDays(days_draw)
DateBackUnclipped(end_date, start_date, days_draw) == end_date - IntDays(days_draw)
DateBack(end_date, start_date, days_draw) ==
    end_date - IntDays(Min(days_draw, 10 * (end_date - start_date)))

CustomerId(i) == i + 1

CustomerRow(i, segment, channel, days_draw, c) ==
    [customer_id |-> CustomerId(i),
     customer_segment |-> segment,
     acquisition_channel |-> channel,
     registration_date |-> DateBack(c.end_date, c.start_date, days_draw)]

\* One iteration of `for i in range(self.num_customers)`.
generate_customers_row(D) ==
    /\ pc = "customers"
    /\ Len(customers) < cfg.num_customers
    /\ \E segment \in D.segment, channel \in D.channel, days_draw \in D.reg_days :
          customers' = Append(customers,
                              CustomerRow(Len(customers), segment, channel, days_draw, cfg))
    /\ UNCHANGED <<pc, cfg, products, orders, order_items, sessions, loc, err>>

\* df = pd.DataFrame(customers); the summary print reads
\* df['customer_segment'], a column an empty frame does not have.
generate_customers_return ==
    /\ pc = "customers"
    /\ Len(customers) = cfg.num_customers
    /\ IF customers = <<>>
         THEN pc' = "error" /\ err' = "KeyError: 'customer_segment'"
         ELSE pc' = "products" /\ err' = err
    /\ UNCHANGED <<cfg, customers, products, orders, order_items, sessions, loc, rng, runs, store, resp, db_manager, conns, ret>>

(***************************************************************************)
(* generate_orders.                                                        *)
(***************************************************************************)
\* segment_behavior[segment]["items_per_order"]: the mean of the Poisson
\* draw of the number of items (every n >= 0 is a possible draw for every
\* segment).
items_per_order(segment) ==
    CASE segment = "Budget" -> 2
      [] segment = "Standard" -> 3
      [] segment = "Premium" -> 5
      [] segment = "Enterprise" -> 10

\* month_weights, in tenths.
month_weights == <<7, 7, 9, 9, 10, 10, 8, 8, 11, 11, 14, 15>>

\* `if np.random.random() > month_weight / 1.5: continue`, u in hundredths.
SkippedInverted(u, month) == 3 * u < 2 * 10 * month_weights[month]
Skipped(u, month) == 3 * u > 2 * 10 * month_weights[month]

\* shipping_cost = np.random.normal(10, 3) if np.random.random() > 0.1 else 0
\* shipping_cost = max(0, shipping_cost); coin in hundredths, the normal
\* draw in mills; the result in micro-dollars.
ShippingDraw(coin, normal_draw) == IF coin > 10 THEN normal_draw * Mill ELSE 0
ShippingCostNoClip(coin, normal_draw) == ShippingDraw(coin, normal_draw)
ShippingCost(coin, normal_draw) == Max(0, ShippingDraw(coin, normal_draw))

\* num_items = max(1, np.random.poisson(...)); sample(min(num_items, len(products_df)))
SampleSizeNoFloor(n_draw, n_products) == Min(n_draw, n_products)
SampleSize(n_draw, n_products) == Min(Max(1, n_draw), n_products)

\* customers_df.sample(1): the row position the random source picks
\* (p: the outcome of its draw), any of the n rows.
SampledRow(n, p) == (p % n) + 1

\* products_df.sample(k): k distinct row positions in the order the random
\* source picks them; p ranges over the n! / (n - k)! outcomes.
RECURSIVE PickRows(_, _, _)
PickRows(rest, k, p) ==
    IF k = 0 \/ rest = <<>>
    THEN <<>>
    ELSE LET j == (p % Len(rest)) + 1
             left == [i \in 1..(Len(rest) - 1) |->
                         IF i < j THEN rest[i] ELSE rest[i + 1]]
         IN  <<rest[j]>> \o PickRows(left, k - 1, p \div Len(rest))

SampledRows(n, k, p) == PickRows([i \in 1..n |-> i], k, p)

RECURSIVE Factorial(_)
Factorial(n) == IF n <= 1 THEN 1 ELSE n * Factorial(n - 1)

\* quantity = max(1, np.random.poisson(2))
Quantity(q_draw) == Max(1, q_draw)

\* unit_price = product["price"] * max(0.5, price_variation), the stored
\* price in cents and the variation in tenths; in micro-dollars.
UnitPriceNoFloor(price, variation) == MulDiv(price * Cent, variation, 10)
UnitPrice(price, variation) == MulDiv(price * Cent, Max(5, variation), 10)

\* customers_df.sample(1)...["customer_id"]: the id column of the sampled
\* row (row position ci), not its 0-based index label.
SampledCustomerIndex(customers_df, ci) == ci - 1
SampledCustomerId(customers_df, ci) == customers_df[ci].customer_id

\* One row of order_items; item_total is the unrounded quantity * unit_price
\* that is added to order_total (not a column of the table).
ItemRow(order_id, product, q_draw, variation) ==
    LET quantity == Quantity(q_draw)
        unit_price == UnitPrice(product.price, variation)
        item_total == quantity * unit_price
    IN  [order_id |-> order_id,
         product_id |-> product.product_id,
         quantity |-> quantity,
         unit_price |-> Round2(unit_price),
         total_price |-> Round2(item_total),
         item_total |-> item_total]

\* The rows of one order: sel are the sampled row positions of products_df,
\* draws[k] the <<quantity draw, price variation>> of the k-th of them.
ItemRows(order_id, prods, sel, draws) ==
    [k \in DOMAIN sel |-> ItemRow(order_id, prods[sel[k]], draws[k][1], draws[k][2])]

OrderTotal(items) == SumSeq([k \in DOMAIN items |-> items[k].item_total])

LargeOrder == 200 * 100 * Cent

\* discount_rate: the uniform draw big_rate when order_total > 200, else
\* the uniform draw promo_rate when the coin promo_u is below 0.1, else 0.
DiscountRateFrom200(order_total, big_rate, promo_u, promo_rate) == IF order_total >= LargeOrder THEN big_rate ELSE IF promo_u < 10 THEN promo_rate ELSE 0
DiscountRate(order_total, big_rate, promo_u, promo_rate) ==
    IF order_total > LargeOrder THEN big_rate
    ELSE IF promo_u < 10 THEN promo_rate
    ELSE 0

TaxRatePct == 8

DiscountAmount(order_total, discount_rate) == MulDiv(order_total, discount_rate, 100)
TaxAmount(subtotal) == MulDiv(subtotal, TaxRatePct, 100)
TotalAmountNoShipping(subtotal, tax_amount, shipping_cost) == subtotal + tax_amount
TotalAmount(subtotal, tax_amount, shipping_cost) == subtotal + tax_amount + shipping_cost

OrderId(order_id) == order_id

\* The order row appended at the end of an iteration.  order_total is the
\* unrounded sum of the items (not a column of the table).
OrderRow(order_id, customer_id, order_date, status, payment_method, shipping_cost, items, discount_rate) ==
    LET order_total == OrderTotal(items)
        discount_amount == DiscountAmount(order_total, discount_rate)
        subtotal == order_total - discount_amount
        tax_amount == TaxAmount(subtotal)
        total_amount == TotalAmount(subtotal, tax_amount, shipping_cost)
    IN  [order_id |-> OrderId(order_id),
         customer_id |-> customer_id,
         order_date |-> order_date,
         status |-> status,
         payment_method |-> payment_method,
         shipping_cost |-> Round2(shipping_cost),
         discount_amount |-> Round2(discount_amount),
         tax_amount |-> Round2(tax_amount),
         total_amount |-> Round2(total_amount),
         order_total |-> order_total]

\* One iteration of `for order_id in range(1, self.num_orders + 1)`.
generate_orders_iter(D) ==
    /\ pc = "orders"
    /\ loc.order_id < cfg.num_orders
    /\ LET order_id == loc.order_id + 1 IN
       IF customers = <<>>
       THEN \* customers_df.sample(1, ...) of an empty frame raises
            /\ pc' = "error"
            /\ err' = "ValueError: sample of empty customers"
            /\ UNCHANGED <<orders, order_items, loc>>
       ELSE
         \E ci \in {SampledRow(Len(customers), p) : p \in D.customer_pick},
            days_draw \in D.order_days, u \in D.u :
           LET order_date == DateBack(cfg.end_date, cfg.start_date, days_draw)
               month == MonthOf(order_date)
           IN  IF Skipped(u, month)
               THEN /\ loc' = [NoLoc EXCEPT !.order_id = order_id, !.month = month,
                                             !.u = u, !.skipped = TRUE]
                    /\ UNCHANGED <<pc, err, orders, order_items>>
               ELSE
                 \E status \in D.status, payment_method \in D.payment,
                    ship_coin \in D.ship_coin, ship_draw \in D.ship_normal,
                    n_draw \in D.num_items :
                   \E sel \in {SampledRows(Len(products),
                                            SampleSize(n_draw, Len(products)), p) :
                                   p \in D.sample_pick} :
                     \E draws \in [DOMAIN sel -> D.item] :
                       \E big_rate \in D.big_rate, promo_u \in D.promo_u,
                          promo_rate \in D.promo_rate :
                         LET items == ItemRows(order_id, products, sel, draws)
                             rate == DiscountRate(OrderTotal(items), big_rate,
                                                  promo_u, promo_rate)
                         IN  /\ order_items' = order_items \o items
                             /\ orders' = Append(orders,
                                    OrderRow(order_id,
                                             SampledCustomerId(customers, ci),
                                             order_date,
                                             status, payment_method,
                                             ShippingCost(ship_coin, ship_draw),
                                             items, rate))
                             /\ loc' = [order_id |-> order_id, month |-> month,
                                        u |-> u, skipped |-> FALSE,
                                        shipping_draw |->
                                            ShippingDraw(ship_coin, ship_draw),
                                        num_items |-> n_draw,
                                        discount_rate |-> rate,
                                        discount_amount |->
                                            DiscountAmount(OrderTotal(items), rate),
                                        tax_amount |->
                                            TaxAmount(OrderTotal(items)
                                                - DiscountAmount(OrderTotal(items), rate)),
                                        total_amount |->
                                            TotalAmount(
                                                OrderTotal(items)
                                                    - DiscountAmount(OrderTotal(items), rate),
                                                TaxAmount(OrderTotal(items)
                                                    - DiscountAmount(OrderTotal(items), rate)),
                                                ShippingCost(ship_coin, ship_draw))]
                             /\ UNCHANGED <<pc, err>>
    /\ UNCHANGED <<cfg, customers, products, sessions>>

\* orders_df = pd.DataFrame(orders); the summary print reads
\* orders_df['status'], a column an empty frame does not have.
generate_orders_return ==
    /\ pc = "orders"
    /\ loc.order_id = cfg.num_orders
    /\ IF orders = <<>>
         THEN pc' = "error" /\ err' = "KeyError: 'status'"
         ELSE pc' = "sessions" /\ err' = err
    /\ UNCHANGED <<cfg, customers, products, orders, order_items, sessions, loc, rng, runs, store, resp, db_manager, conns, ret>>

(***************************************************************************)
(* generate_web_analytics.                                                 *)
(***************************************************************************)
NoCustomer == -1
SessionsPerOrder == 5

NumSessionsOfRequested(orders_df, c) == c.num_orders * SessionsPerOrder
NumSessions(orders_df, c) == Len(orders_df) * SessionsPerOrder

\* converted = session_id <= len(orders_df)
Converted(session_id, orders_df) == session_id <= Len(orders_df)

\* orders_df.iloc[session_id - 1]["total_amount"] if converted else 0
RevenueFlat(session_id, orders_df) == orders_df[1].total_amount
RevenueByOrderId(session_id, orders_df) == SumSeq([k \in DOMAIN orders_df |-> IF orders_df[k].order_id = session_id THEN orders_df[k].total_amount ELSE 0])
Revenue(session_id, orders_df) ==
    IF Converted(session_id, orders_df)
    THEN orders_df[session_id].total_amount
    ELSE 0

SessionRow(session_id, customer_id, days_draw, orders_df, c) ==
    [session_id |-> session_id,
     customer_id |-> customer_id,
     session_date |-> DateBackNoClip(c.end_date, c.start_date, days_draw),
     converted |-> Converted(session_id, orders_df),
     revenue |-> Revenue(session_id, orders_df)]

\* One iteration of `for session_id in range(1, num_sessions + 1)`;
\* coin (hundredths) below 0.6 samples an existing customer.
generate_web_analytics_row(D) ==
    /\ pc = "sessions"
    /\ Len(sessions) < NumSessions(orders, cfg)
    /\ Len(sessions) < MaxSessions
    /\ \E coin \in D.sess_coin, days_draw \in D.sess_days :
         IF coin < 60 /\ customers = <<>>
         THEN \* customers_df.sample(1) of an empty frame raises
              /\ pc' = "error"
              /\ err' = "ValueError: sample of empty customers"
              /\ UNCHANGED sessions
         ELSE /\ \E customer_id \in (IF coin < 60
                                      THEN {SampledCustomerId(customers,
                                                  SampledRow(Len(customers), p)) :
                                               p \in D.customer_pick}
                                      ELSE {NoCustomer}) :
                    sessions' = Append(sessions,
                        SessionRow(Len(sessions) + 1, customer_id, days_draw, orders, cfg))
              /\ UNCHANGED <<pc, err>>
    /\ UNCHANGED <<cfg, customers, products, orders, order_items, loc>>

\* sessions_df = pd.DataFrame(sessions); the summary print reads
\* sessions_df['converted'], a column an empty frame does not have.
generate_web_analytics_return ==
    /\ pc = "sessions"
    /\ Len(sessions) = NumSessions(orders, cfg)
    /\ IF sessions = <<>>
         THEN pc' = "error" /\ err' = "KeyError: 'converted'"
         ELSE pc' = "done" /\ err' = err
    /\ UNCHANGED <<cfg, customers, products, orders, order_items, sessions, loc, rng, runs, store, resp, db_manager, conns, ret>>

(***************************************************************************)
(* main(): the generator is constructed from the configuration, which     *)
(* __init__ stores as given; then generator.generate_all_data() runs.      *)
(***************************************************************************)
main_construct ==
    /\ pc = "main"
    /\ pc' = "customers"
    /\ UNCHANGED <<cfg, customers, products, orders, order_items, sessions, loc, err,
                   rng, runs, store, resp, db_manager, conns, ret>>

(***************************************************************************)
(* Draw sets.  BaseDraws gives every draw one ordinary outcome; each       *)
(* specification widens the draws its properties are about.                *)
(***************************************************************************)
BaseDraws ==
    [segment |-> {"Standard"},
     channel |-> {"Direct"},
     reg_days |-> {0},
     category |-> {"Clothing"},
     base_price |-> {20085},
     margin |-> {40},
     order_days |-> {0},
     u |-> {50},
     status |-> {"Completed"},
     payment |-> {"Credit Card"},
     ship_coin |-> {50},
     ship_normal |-> {9996},
     num_items |-> {1},
     item |-> {<<1, 10>>},
     big_rate |-> {10},
     promo_u |-> {50},
     promo_rate |-> {15},
     sess_coin |-> {99},
     sess_days |-> {0},
     customer_pick |-> 0..(MaxCustomers - 1),
     sample_pick |-> 0..(Factorial(MaxProducts) - 1)]

\* Inputs of a stage run on its own: the tables the earlier stages return
\* for the given draws (draws[i] for row i, the last one repeated).
DrawAt(draws, i) == IF i <= Len(draws) THEN draws[i] ELSE draws[Len(draws)]

CustomerTable(n, c) ==
    [i \in 1..n |-> CustomerRow(i - 1, customer_segments[((i - 1) % 4) + 1],
                                acquisition_channels[((i - 1) % 7) + 1], 0, c)]

ProductTable(n, draws) ==
    [i \in 1..n |-> ProductRow(i - 1, DrawAt(draws, i)[1], DrawAt(draws, i)[2],
                               DrawAt(draws, i)[3])]

DateRanges == {<<Jan1, Dec31>>, <<Dec31, Dec31>>, <<Dec31, Jan1>>}

(***************************************************************************)
(* Spec: the whole run of main() up to the end of generate_all_data().     *)
(***************************************************************************)
MainDraws ==
    [BaseDraws EXCEPT !.reg_days = {0, 99990},
                      !.order_days = {0, 99990},
                      !.u = {0, 99},
                      !.item = {<<0, 3>>, <<2, 11>>}]

Init ==
    /\ pc = "main"
    /\ cfg \in {Config(nc, np, no, r[1], r[2]) :
                  nc \in 0..MaxCustomers, np \in 0..MaxProducts,
                  no \in 0..MaxOrders, r \in DateRanges}
    /\ customers = <<>>
    /\ products = <<>>
    /\ orders = <<>>
    /\ order_items = <<>>
    /\ sessions = <<>>
    /\ loc = NoLoc
    /\ err = ""
    /\ rng = Seed
    /\ runs = <<>>
    /\ store = EmptyStore
    /\ resp = NoResp
    /\ db_manager = NewManager
    /\ conns = <<>>
    /\ ret = NoCall

Construct == main_construct
CustomersRow == generate_customers_row(MainDraws) /\ UNCHANGED <<rng, runs, store, resp, db_manager, conns, ret>>
CustomersReturn == generate_customers_return
ProductsRow == generate_products_row(MainDraws) /\ UNCHANGED <<rng, runs, store, resp, db_manager, conns, ret>>
ProductsReturn == generate_products_return
OrdersIter == generate_orders_iter(MainDraws) /\ UNCHANGED <<rng, runs, store, resp, db_manager, conns, ret>>
OrdersReturn == generate_orders_return
SessionsRow == generate_web_analytics_row(MainDraws) /\ UNCHANGED <<rng, runs, store, resp, db_manager, conns, ret>>
SessionsReturn == generate_web_analytics_return

Next ==
    \/ Construct
    \/ CustomersRow
    \/ CustomersReturn
    \/ ProductsRow
    \/ ProductsReturn
    \/ OrdersIter
    \/ OrdersReturn
    \/ SessionsRow
    \/ SessionsReturn

Spec == Init /\ [][Next]_vars

(***************************************************************************)
(* SpecProducts: generate_products on its own.                             *)
(***************************************************************************)
ProductDraws ==
    [BaseDraws EXCEPT !.category = Range(product_categories),
                      !.base_price = {10, 237, 1054, 20085},
                      !.margin = {5, 40, 95}]

InitProducts ==
    /\ pc = "products"
    /\ cfg \in {Config(1, np, 1, Jan1, Dec31) : np \in 0..MaxProducts}
    /\ customers = <<>>
    /\ products = <<>>
    /\ orders = <<>>
    /\ order_items = <<>>
    /\ sessions = <<>>
    /\ loc = NoLoc
    /\ err = ""
    /\ rng = Seed
    /\ runs = <<>>
    /\ store = EmptyStore
    /\ resp = NoResp
    /\ db_manager = NewManager
    /\ conns = <<>>
    /\ ret = NoCall

CatalogRow == generate_products_row(ProductDraws) /\ UNCHANGED <<rng, runs, store, resp, db_manager, conns, ret>>

NextProducts == CatalogRow \/ ProductsReturn

SpecProducts == InitProducts /\ [][NextProducts]_vars

(***************************************************************************)
(* SpecOrders: generate_orders called on given customer and product        *)
(* tables (either may have no rows); which candidates are emitted.         *)
(***************************************************************************)
EmitDraws ==
    [BaseDraws EXCEPT !.order_days = {0, 450, 99990},
                      !.u = {0, 50, 99},
                      !.num_items = {0, 1, 5},
                      !.sample_pick = {0, 1}]

OrderCatalog == <<<<"Clothing", 100000, 40>>, <<"Clothing", 1030, 40>>,
                  <<"Books", 10, 40>>>>

InitStage(stage, ncs, nps, nos, catalog) ==
    \E nc \in ncs, np \in nps, no \in nos :
        LET c == Config(nc, np, no, Jan1, Dec31) IN
        /\ pc = stage
        /\ cfg = c
        /\ customers = CustomerTable(nc, c)
        /\ products = ProductTable(np, catalog)
        /\ orders = <<>>
        /\ order_items = <<>>
        /\ sessions = <<>>
        /\ loc = NoLoc
        /\ err = ""
        /\ rng = Seed
        /\ runs = <<>>
        /\ store = EmptyStore
        /\ resp = NoResp
        /\ db_manager = NewManager
        /\ conns = <<>>
        /\ ret = NoCall

InitOrders ==
    InitStage("orders", 0..MaxCustomers, 0..MaxProducts, 0..MaxOrders, OrderCatalog)

EmitIter == generate_orders_iter(EmitDraws) /\ UNCHANGED <<rng, runs, store, resp, db_manager, conns, ret>>

NextOrders == EmitIter \/ OrdersReturn

SpecOrders == InitOrders /\ [][NextOrders]_vars

(***************************************************************************)
(* SpecTotals: generate_orders on given tables; the amounts of an order.   *)
(***************************************************************************)
TotalsDraws ==
    [BaseDraws EXCEPT !.ship_coin = {5, 50},
                      !.ship_normal = {-2000, 9996},
                      !.num_items = {0, 2},
                      !.item = {<<2, 11>>},
                      !.big_rate = {5},
                      !.promo_u = {5, 50},
                      !.promo_rate = {25}]

TotalsIter == generate_orders_iter(TotalsDraws) /\ UNCHANGED <<rng, runs, store, resp, db_manager, conns, ret>>

NextTotals == TotalsIter \/ OrdersReturn

\* The amounts do not depend on which customer orders: one customer.
InitTotals == InitStage("orders", {1}, 0..MaxProducts, 0..MaxOrders, OrderCatalog)

SpecTotals == InitTotals /\ [][NextTotals]_vars

(***************************************************************************)
(* SpecFunnel: generate_orders, then generate_web_analytics on its result  *)
(* (lines 374-375 of generate_all_data), on given tables.                  *)
(***************************************************************************)
FunnelDraws ==
    [BaseDraws EXCEPT !.ship_coin = {5},
                      !.sess_coin = {30, 99}]

FunnelCatalog == <<<<"Clothing", 100000, 40>>, <<"Books", 10, 40>>>>

\* The catalog has at least one row, as generate_products returns it.
InitFunnel ==
    InitStage("orders", 0..MaxCustomers, 1..MaxProducts, 0..MaxOrders, FunnelCatalog)

FunnelIter == generate_orders_iter(FunnelDraws) /\ UNCHANGED <<rng, runs, store, resp, db_manager, conns, ret>>
FunnelRow == generate_web_analytics_row(FunnelDraws) /\ UNCHANGED <<rng, runs, store, resp, db_manager, conns, ret>>

NextFunnel == FunnelIter \/ OrdersReturn \/ FunnelRow \/ SessionsReturn

SpecFunnel == InitFunnel /\ [][NextFunnel]_vars

(***************************************************************************)
(* SpecRuns: one interpreter process.  The module is imported (the seeds   *)
(* are set), then generate_all_data() is called on a generator built from  *)
(* the same configuration up to MaxRuns times; every draw is the outcome   *)
(* the random source yields in its current state.                          *)
(***************************************************************************)
SeededDraws(s) ==
    [segment |-> {Drawn(customer_segments, s, 1)},
     channel |-> {Drawn(acquisition_channels, s, 2)},
     reg_days |-> {Drawn(<<0, 2000, 99990>>, s, 3)},
     category |-> {Drawn(product_categories, s, 4)},
     base_price |-> {Drawn(<<10, 237, 1054, 20085>>, s, 5)},
     margin |-> {Drawn(<<5, 40, 95>>, s, 6)},
     order_days |-> {Drawn(<<0, 450, 99990>>, s, 7)},
     u |-> {Drawn(<<0, 50, 99>>, s, 8)},
     status |-> {Drawn(<<"Completed", "Pending">>, s, 9)},
     payment |-> {Drawn(<<"Credit Card", "PayPal">>, s, 10)},
     ship_coin |-> {Drawn(<<5, 50>>, s, 11)},
     ship_normal |-> {Drawn(<<-2000, 9996>>, s, 12)},
     num_items |-> {Drawn(<<0, 1, 2>>, s, 13)},
     item |-> {Drawn(<<<<1, 9>>, <<2, 11>>>>, s, 14)},
     big_rate |-> {Drawn(<<5, 10>>, s, 15)},
     promo_u |-> {Drawn(<<5, 50>>, s, 16)},
     promo_rate |-> {Drawn(<<15, 25>>, s, 17)},
     sess_coin |-> {Drawn(<<30, 99>>, s, 18)},
     sess_days |-> {Drawn(<<0, 200>>, s, 19)},
     customer_pick |-> {(s \div 8) % 16},
     sample_pick |-> {(s \div 4) % 32}]

\* The dictionary generate_all_data() returns.
Datasets ==
    [customers |-> customers,
     products |-> products,
     orders |-> orders,
     order_items |-> order_items,
     web_sessions |-> sessions]

\* generate_all_data() returns its five tables to the caller.
generate_all_data_return ==
    /\ pc = "done"
    /\ pc' = "returned"
    /\ runs' = Append(runs, Datasets)
    /\ UNCHANGED <<cfg, customers, products, orders, order_items, sessions, loc, err,
                   rng, store, resp, db_manager, conns, ret>>

\* The caller builds a generator from the same configuration and calls
\* generate_all_data() again: the lists start empty, the random sources
\* are where the previous call left them.
generate_all_data_again ==
    /\ pc = "returned"
    /\ Len(runs) < MaxRuns
    /\ pc' = "customers"
    /\ customers' = <<>>
    /\ products' = <<>>
    /\ orders' = <<>>
    /\ order_items' = <<>>
    /\ sessions' = <<>>
    /\ loc' = NoLoc
    /\ UNCHANGED <<cfg, err, rng, runs, store, resp, db_manager, conns, ret>>

InitRuns ==
    /\ pc = "main"
    /\ cfg \in {Config(nc, np, no, r[1], r[2]) :
                  nc \in 1..MaxCustomers, np \in 1..MaxProducts,
                  no \in 1..MaxOrders, r \in DateRanges}
    /\ customers = <<>>
    /\ products = <<>>
    /\ orders = <<>>
    /\ order_items = <<>>
    /\ sessions = <<>>
    /\ loc = NoLoc
    /\ err = ""
    /\ rng = Seed
    /\ runs = <<>>
    /\ store = EmptyStore
    /\ resp = NoResp
    /\ db_manager = NewManager
    /\ conns = <<>>
    /\ ret = NoCall

SeededCustomersRow ==
    generate_customers_row(SeededDraws(rng)) /\ rng' = Advance(rng) /\ UNCHANGED <<runs, store, resp, db_manager, conns, ret>>
SeededProductsRow ==
    generate_products_row(SeededDraws(rng)) /\ rng' = Advance(rng) /\ UNCHANGED <<runs, store, resp, db_manager, conns, ret>>
SeededOrdersIter ==
    generate_orders_iter(SeededDraws(rng)) /\ rng' = Advance(rng) /\ UNCHANGED <<runs, store, resp, db_manager, conns, ret>>
SeededSessionsRow ==
    generate_web_analytics_row(SeededDraws(rng)) /\ rng' = Advance(rng) /\ UNCHANGED <<runs, store, resp, db_manager, conns, ret>>
AllDataReturn == generate_all_data_return
AllDataAgain == generate_all_data_again

NextRuns ==
    \/ Construct
    \/ SeededCustomersRow
    \/ CustomersReturn
    \/ SeededProductsRow
    \/ ProductsReturn
    \/ SeededOrdersIter
    \/ OrdersReturn
    \/ SeededSessionsRow
    \/ SessionsReturn
    \/ AllDataReturn
    \/ AllDataAgain

SpecRuns == InitRuns /\ [][NextRuns]_vars

(***************************************************************************)
(* main() after generate_all_data(): the five tables are written as CSV    *)
(* files, then loaded into the DuckDB file as tables, then three views are *)
(* created and a summary is printed.  Every write can fail (directory not  *)
(* writable, disk full, database locked); main() catches nothing, removes  *)
(* nothing, and DuckDB commits every statement as it is executed.          *)
(***************************************************************************)
\* The keys of the dictionary generate_all_data() returns, in its order.
DatasetNames == <<"customers", "products", "orders", "order_items", "web_sessions">>

ViewNames == <<"monthly_revenue", "customer_ltv", "product_performance">>

\* The exceptions of the persisting steps.
PersistErrors ==
    {"OSError: mkdir", "OSError: to_csv", "IOException: connect",
     "Error: CREATE TABLE", "Error: CREATE VIEW"}

\* `datasets = generator.generate_all_data()` has returned.
GeneratedEarly(p) == p \in {"sessions", "done"}
Generated(p) == p = "done"

PersistUnchanged ==
    UNCHANGED <<cfg, customers, products, orders, order_items, sessions, loc,
                rng, runs, resp, db_manager, conns, ret>>

\* data_dir.mkdir(exist_ok=True)
\* The columns of each table (the keys of the dicts the generator builds
\* its DataFrames from) and of each view (its select list).
Columns(rel) ==
    CASE rel = "customers" ->
           {"customer_id", "email", "first_name", "last_name", "birth_date",
            "gender", "address", "city", "country", "postal_code",
            "customer_segment", "acquisition_channel", "registration_date",
            "is_active"}
      [] rel = "products" ->
           {"product_id", "product_name", "category", "subcategory", "brand",
            "price", "cost", "weight_kg", "dimensions_cm", "launch_date",
            "is_active"}
      [] rel = "orders" ->
           {"order_id", "customer_id", "order_date", "status", "payment_method",
            "shipping_cost", "discount_amount", "tax_amount", "total_amount"}
      [] rel = "order_items" ->
           {"order_id", "product_id", "quantity", "unit_price", "total_price"}
      [] rel = "web_sessions" ->
           {"session_id", "customer_id", "session_date", "traffic_source",
            "device_type", "session_duration_seconds", "page_views", "bounced",
            "converted", "revenue"}
      [] rel = "monthly_revenue" ->
           {"month", "order_count", "revenue", "avg_order_value"}
      [] rel = "customer_ltv" ->
           {"customer_id", "customer_segment", "acquisition_channel",
            "total_orders", "lifetime_value", "avg_order_value",
            "first_order_date", "last_order_date"}
      [] rel = "product_performance" ->
           {"product_id", "product_name", "category", "price", "times_ordered",
            "total_quantity_sold", "total_revenue", "avg_selling_price",
            "avg_profit_per_unit"}
      [] OTHER -> {}

\* datasets[name]: the DataFrame generate_all_data returned under name.
Frame(name) ==
    CASE name = "customers" -> customers
      [] name = "products" -> products
      [] name = "orders" -> orders
      [] name = "order_items" -> order_items
      [] name = "web_sessions" -> sessions

\* df.to_csv(csv_path, index=False): a header of the frame's columns and
\* one line per row, without the index; a variant that loses the last row.
to_csv_truncated(df, name) == [k \in 1..(Len(df) - 1) |-> [c \in Columns(name) \cap DOMAIN df[k] |-> df[k][c]]]
to_csv(df, name) == [k \in DOMAIN df |-> [c \in Columns(name) \cap DOMAIN df[k] |-> df[k][c]]]

\* CREATE OR REPLACE TABLE name AS SELECT * FROM name_temp, name_temp the
\* registered DataFrame: its columns and its rows.
create_table(df, name) == [k \in DOMAIN df |-> [c \in Columns(name) \cap DOMAIN df[k] |-> df[k][c]]]

main_mkdir ==
    /\ Generated(pc)
    /\ pc' = "csv"
    /\ UNCHANGED <<err, store>>
    /\ PersistUnchanged

main_mkdir_fails ==
    /\ Generated(pc)
    /\ pc' = "error"
    /\ err' = "OSError: mkdir"
    /\ UNCHANGED store
    /\ PersistUnchanged

\* One iteration of `for name, df in datasets.items(): df.to_csv(...)`.
main_to_csv ==
    /\ pc = "csv"
    /\ Len(store.csv) < Len(DatasetNames)
    /\ LET name == DatasetNames[Len(store.csv) + 1] IN
       store' = [store EXCEPT !.csv = Append(@, name),
                              !.csv_rows = Append(@, to_csv(Frame(name), name))]
    /\ UNCHANGED <<pc, err>>
    /\ PersistUnchanged

main_to_csv_fails ==
    /\ pc = "csv"
    /\ Len(store.csv) < Len(DatasetNames)
    /\ pc' = "error"
    /\ err' = "OSError: to_csv"
    /\ UNCHANGED store
    /\ PersistUnchanged

\* `with duckdb.connect(str(db_path)) as conn`: creates the database file.
main_connect ==
    /\ pc = "csv"
    /\ Len(store.csv) = Len(DatasetNames)
    /\ pc' = "tables"
    /\ store' = [store EXCEPT !.db = TRUE]
    /\ UNCHANGED err
    /\ PersistUnchanged

main_connect_fails ==
    /\ pc = "csv"
    /\ Len(store.csv) = Len(DatasetNames)
    /\ pc' = "error"
    /\ err' = "IOException: connect"
    /\ UNCHANGED store
    /\ PersistUnchanged

\* One iteration of the loop of CREATE OR REPLACE TABLE statements.
main_create_table ==
    /\ pc = "tables"
    /\ Len(store.tables) < Len(DatasetNames)
    /\ LET name == DatasetNames[Len(store.tables) + 1] IN
       store' = [store EXCEPT !.tables = Append(@, name),
                              !.table_rows = Append(@, create_table(Frame(name), name))]
    /\ UNCHANGED <<pc, err>>
    /\ PersistUnchanged

main_create_table_fails ==
    /\ pc = "tables"
    /\ Len(store.tables) < Len(DatasetNames)
    /\ pc' = "error"
    /\ err' = "Error: CREATE TABLE"
    /\ UNCHANGED store
    /\ PersistUnchanged

\* One of the three CREATE OR REPLACE VIEW statements.
main_create_view ==
    /\ pc = "tables"
    /\ Len(store.tables) = Len(DatasetNames)
    /\ Len(store.views) < Len(ViewNames)
    /\ store' = [store EXCEPT !.views = Append(@, ViewNames[Len(@) + 1])]
    /\ UNCHANGED <<pc, err>>
    /\ PersistUnchanged

main_create_view_fails ==
    /\ pc = "tables"
    /\ Len(store.tables) = Len(DatasetNames)
    /\ Len(store.views) < Len(ViewNames)
    /\ pc' = "error"
    /\ err' = "Error: CREATE VIEW"
    /\ UNCHANGED store
    /\ PersistUnchanged

\* SELECT SUM(total_amount) FROM orders WHERE status = 'Completed' is NULL
\* when no order is Completed, and a category's SUM(total_revenue) is NULL
\* when none of its products was ordered (it is listed when fewer than
\* five categories have revenue); formatting None with ',.2f' raises.
SummaryRaises ==
    LET sold == {products[k].category : k \in
                    {j \in DOMAIN products :
                        \E i \in DOMAIN order_items :
                            order_items[i].product_id = products[j].product_id}}
        all == {products[k].category : k \in DOMAIN products}
    IN  \/ \A k \in DOMAIN orders : orders[k].status # "Completed"
        \/ Cardinality(sold) < 5 /\ all # sold

\* The database summary and the sample insights; then main() returns.
main_summary ==
    /\ pc = "tables"
    /\ Len(store.views) = Len(ViewNames)
    /\ IF SummaryRaises
         THEN pc' = "error" /\ err' = "TypeError: format of None"
         ELSE pc' = "ready" /\ err' = err
    /\ UNCHANGED store
    /\ PersistUnchanged

(***************************************************************************)
(* SpecPersist: the whole of main(): generation, then persisting.          *)
(***************************************************************************)
PersistDraws ==
    [BaseDraws EXCEPT !.order_days = {0, 99990},
                      !.u = {0, 99},
                      !.status = {"Completed", "Cancelled"}]

PersistCustomersRow ==
    generate_customers_row(PersistDraws) /\ UNCHANGED <<rng, runs, store, resp, db_manager, conns, ret>>
PersistProductsRow ==
    generate_products_row(PersistDraws) /\ UNCHANGED <<rng, runs, store, resp, db_manager, conns, ret>>
PersistOrdersIter ==
    generate_orders_iter(PersistDraws) /\ UNCHANGED <<rng, runs, store, resp, db_manager, conns, ret>>
PersistSessionsRow ==
    generate_web_analytics_row(PersistDraws) /\ UNCHANGED <<rng, runs, store, resp, db_manager, conns, ret>>
Mkdir == main_mkdir
MkdirFails == main_mkdir_fails
ToCsv == main_to_csv
ToCsvFails == main_to_csv_fails
Connect == main_connect
ConnectFails == main_connect_fails
CreateTable == main_create_table
CreateTableFails == main_create_table_fails
CreateView == main_create_view
CreateViewFails == main_create_view_fails
Summary == main_summary

NextPersist ==
    \/ Construct
    \/ PersistCustomersRow
    \/ CustomersReturn
    \/ PersistProductsRow
    \/ ProductsReturn
    \/ PersistOrdersIter
    \/ OrdersReturn
    \/ PersistSessionsRow
    \/ SessionsReturn
    \/ Mkdir
    \/ MkdirFails
    \/ ToCsv
    \/ ToCsvFails
    \/ Connect
    \/ ConnectFails
    \/ CreateTable
    \/ CreateTableFails
    \/ CreateView
    \/ CreateViewFails
    \/ Summary

SpecPersist == Init /\ [][NextPersist]_vars

(***************************************************************************)
(* The views main() creates, as functions of the tables they select from.  *)
(* A view without ORDER BY is the set of its rows.  SQL NULL is Null.      *)
(* Sums of total_amount are in cents, averages in micro-dollars            *)
(* (truncated).                                                            *)
(***************************************************************************)
Null == -999999

\* The sum of f[x] over the x in S.
RECURSIVE SumOver(_, _)
SumOver(f, S) ==
    IF S = {} THEN 0
    ELSE LET x == CHOOSE y \in S : TRUE IN f[x] + SumOver(f, S \ {x})

\* The elements of a finite set of integers in increasing order.
RECURSIVE Sorted(_)
Sorted(S) ==
    IF S = {} THEN <<>>
    ELSE LET x == CHOOSE y \in S : \A z \in S : y <= z IN <<x>> \o Sorted(S \ {x})

\* DATE_TRUNC('month', d): the first day of d's month.
DateTruncMonth(d) == MonthStart[MonthOf(d)]

\* WHERE status = 'Completed' (monthly_revenue); a variant without it.
AllStatuses(orders_t) == DOMAIN orders_t
CompletedOnly(orders_t) == {k \in DOMAIN orders_t : orders_t[k].status = "Completed"}

\* CREATE OR REPLACE VIEW monthly_revenue: one row per group of the
\* selected orders by DATE_TRUNC('month', order_date), ordered by month.
monthly_revenue(orders_t) ==
    LET sel == CompletedOnly(orders_t)
        months == Sorted({DateTruncMonth(orders_t[k].order_date) : k \in sel})
        group(m) == {k \in sel : DateTruncMonth(orders_t[k].order_date) = m}
        total == [k \in DOMAIN orders_t |-> orders_t[k].total_amount]
    IN  [i \in DOMAIN months |->
            [month |-> months[i],
             order_count |-> Cardinality(group(months[i])),
             revenue |-> SumOver(total, group(months[i])),
             avg_order_value |->
                 (SumOver(total, group(months[i])) * Cent)
                     \div Cardinality(group(months[i]))]]

\* FROM customers c LEFT JOIN orders o ON c.customer_id = o.customer_id:
\* the pairs <<i, j>> of a customers row and a matching orders row, and
\* <<i, 0>> for a customers row without a match; a variant without the
\* unmatched rows (an inner join).
InnerJoin(customers_t, orders_t) ==
    {<<i, j>> \in (DOMAIN customers_t) \X (DOMAIN orders_t) :
        customers_t[i].customer_id = orders_t[j].customer_id}
LeftJoin(customers_t, orders_t) ==
    {<<i, j>> \in (DOMAIN customers_t) \X (DOMAIN orders_t) :
        customers_t[i].customer_id = orders_t[j].customer_id}
    \cup {<<i, 0>> : i \in {k \in DOMAIN customers_t :
                               \A j \in DOMAIN orders_t :
                                   customers_t[k].customer_id # orders_t[j].customer_id}}

\* CREATE OR REPLACE VIEW customer_ltv: one row per group of the joined
\* rows by (customer_id, customer_segment, acquisition_channel).  COUNT,
\* MIN and MAX skip the NULLs of an unmatched row; the CASE of
\* lifetime_value turns them into 0.
customer_ltv(customers_t, orders_t) ==
    LET joined == LeftJoin(customers_t, orders_t)
        key(i) == <<customers_t[i].customer_id, customers_t[i].customer_segment,
                    customers_t[i].acquisition_channel>>
        keys == {key(p[1]) : p \in joined}
        matched(g) == {p \in joined : key(p[1]) = g /\ p[2] # 0}
        completed(g) == {p \in matched(g) : orders_t[p[2]].status = "Completed"}
        amount == [p \in joined |-> IF p[2] = 0 THEN 0 ELSE orders_t[p[2]].total_amount]
        dates(g) == {orders_t[p[2]].order_date : p \in matched(g)}
    IN  {[customer_id |-> g[1],
          customer_segment |-> g[2],
          acquisition_channel |-> g[3],
          total_orders |-> Cardinality(matched(g)),
          lifetime_value |-> SumOver(amount, completed(g)),
          avg_order_value |->
              IF completed(g) = {} THEN Null
              ELSE (SumOver(amount, completed(g)) * Cent) \div Cardinality(completed(g)),
          first_order_date |->
              IF dates(g) = {} THEN Null ELSE Sorted(dates(g))[1],
          last_order_date |->
              IF dates(g) = {} THEN Null ELSE Sorted(dates(g))[Cardinality(dates(g))]] :
         g \in keys}

(***************************************************************************)
(* SpecViews: generate_orders on given tables, with orders of several      *)
(* customers, months and statuses; the views over the tables so far.       *)
(***************************************************************************)
ViewsDraws ==
    [BaseDraws EXCEPT !.order_days = {0, 450},
                      !.u = {0},
                      !.status = {"Completed", "Cancelled"},
                      !.customer_pick = 0..MaxCustomers]

ViewsCatalog == <<<<"Clothing", 20085, 40>>>>

InitViews ==
    InitStage("orders", 1..(MaxCustomers + 1), {1}, 0..MaxOrders, ViewsCatalog)

ViewsIter == generate_orders_iter(ViewsDraws) /\ UNCHANGED <<rng, runs, store, resp, db_manager, conns, ret>>

NextViews == ViewsIter \/ OrdersReturn

SpecViews == InitViews /\ [][NextViews]_vars

(***************************************************************************)
(* Properties.                                                             *)
(***************************************************************************)
Ids(table, col) == {table[k][col] : k \in DOMAIN table}

\* The order_items rows of an order, by order_id.
ItemsOf(o) == SelectSeq(order_items, LAMBDA it : it.order_id = o.order_id)

\* sum(order_items.total_price where order_items.order_id == o.order_id),
\* in cents.
StoredItemSum(o) == SumSeq([k \in DOMAIN ItemsOf(o) |-> ItemsOf(o)[k].total_price])

\* total_amount - tax_amount - shipping_cost + discount_amount of the
\* stored order row, in cents.
Reconstructed(o) == o.total_amount - o.tax_amount - o.shipping_cost + o.discount_amount

\* C1: generate_web_analytics returns exactly 5 * len(orders) session rows,
\* orders being the table generate_orders emitted; while it runs it never
\* holds more rows than that.
C1_SessionCount ==
    /\ Len(sessions) <= 5 * Len(orders)
    /\ pc = "done" => Len(sessions) = 5 * Len(orders)

\* C1 witness: a finished run in which a candidate was skipped, so that
\* fewer orders were emitted than requested, with 5 sessions per order.
C1_Witness ==
    /\ pc = "done"
    /\ Len(orders) >= 1
    /\ Len(orders) < cfg.num_orders
    /\ Len(sessions) = 5 * Len(orders)

\* C2 as claimed: a converted session has revenue > 0 and a session that
\* is not converted has revenue 0.
C2_ConvertedRevenuePositive ==
    \A k \in DOMAIN sessions :
        IF sessions[k].converted
        THEN sessions[k].revenue > 0
        ELSE sessions[k].revenue = 0

\* C2 as amended: a converted session has the total_amount of the order at
\* its row position as revenue, which is >= 0 and is 0 exactly when that
\* order's total is 0; a session that is not converted has revenue 0.
C2_ConvertedRevenue ==
    \A k \in DOMAIN sessions :
        IF sessions[k].converted
        THEN /\ k <= Len(orders)
             /\ sessions[k].revenue = orders[k].total_amount
             /\ sessions[k].revenue >= 0
        ELSE sessions[k].revenue = 0

\* C2 witness: a converted session with positive revenue, a converted one
\* with revenue 0 (an order of a product whose price rounds to 0.00, with
\* free shipping) and a session that is not converted.
C2_Witness ==
    /\ \E k \in DOMAIN sessions : sessions[k].converted /\ sessions[k].revenue > 0
    /\ \E k \in DOMAIN sessions : sessions[k].converted /\ sessions[k].revenue = 0
    /\ \E k \in DOMAIN sessions : ~sessions[k].converted

\* C3 as claimed: the stored item totals of an order sum to its
\* pre-discount subtotal, and the stored order row reconstructs that
\* subtotal within 1e-6 (one micro-dollar).
C3_SubtotalExact ==
    \A k \in DOMAIN orders :
        /\ StoredItemSum(orders[k]) * Cent = orders[k].order_total
        /\ Abs(Reconstructed(orders[k]) * Cent - orders[k].order_total) <= 1

\* C3 as amended: the stored item totals sum to the pre-discount subtotal
\* within half a cent per item row, and the stored order row reconstructs
\* it within 0.02 (four amounts rounded to cents).
C3_SubtotalWithinRounding ==
    \A k \in DOMAIN orders :
        /\ 2 * Abs(StoredItemSum(orders[k]) * Cent - orders[k].order_total)
              <= Len(ItemsOf(orders[k])) * Cent
        /\ Abs(Reconstructed(orders[k]) * Cent - orders[k].order_total) <= 2 * Cent

\* C3 witness: an order of two items, with shipping and a discount, whose
\* stored item totals and whose reconstruction both differ from the
\* unrounded subtotal.
C3_Witness ==
    \E k \in DOMAIN orders :
        /\ Len(ItemsOf(orders[k])) = 2
        /\ orders[k].shipping_cost > 0
        /\ orders[k].discount_amount > 0
        /\ StoredItemSum(orders[k]) * Cent # orders[k].order_total
        /\ Reconstructed(orders[k]) * Cent # orders[k].order_total

\* C4 as claimed: for every stored product row cost < price, except that
\* when the margin rate is at its 0.10 floor cost <= 0.90 * price.
C4_CostBelowPrice ==
    \A k \in DOMAIN products :
        IF products[k].margin_rate = MarginFloorPct
        THEN 100 * products[k].cost <= 90 * products[k].price
        ELSE products[k].cost < products[k].price

\* C4 as amended: for every stored product row cost <= price and
\* cost <= 0.90 * price + 0.01, and cost < price when price >= 0.10.
C4_CostWithinRounding ==
    \A k \in DOMAIN products :
        /\ products[k].cost <= products[k].price
        /\ 100 * products[k].cost <= 90 * products[k].price + 100
        /\ products[k].price >= 10 => products[k].cost < products[k].price

\* C4 witness: a catalog with a row at the margin floor whose stored cost
\* exceeds 0.90 * its stored price, and a row whose cost equals its price.
C4_Witness ==
    /\ \E k \in DOMAIN products :
          /\ products[k].margin_rate = MarginFloorPct
          /\ products[k].price >= 100
          /\ 100 * products[k].cost > 90 * products[k].price
    /\ \E k \in DOMAIN products : products[k].cost = products[k].price

\* C5: every emitted order has discount_amount, tax_amount, shipping_cost
\* and total_amount >= 0.
C5_AmountsNonNegative ==
    \A k \in DOMAIN orders :
        /\ orders[k].discount_amount >= 0
        /\ orders[k].tax_amount >= 0
        /\ orders[k].shipping_cost >= 0
        /\ orders[k].total_amount >= 0

\* C5 witness: the order just emitted had a negative normal draw for its
\* shipping cost, and an earlier order has a positive shipping cost.
C5_Witness ==
    /\ loc.order_id = 2
    /\ ~loc.skipped
    /\ loc.shipping_draw < 0
    /\ Len(orders) = 2
    /\ orders[2].shipping_cost = 0
    /\ orders[1].shipping_cost > 0

\* C7: every orders.customer_id is the id of a customer, every
\* order_items.product_id is the id of a product, and every session
\* customer_id that is not None is the id of a customer.
C7_ReferentialIntegrity ==
    /\ \A k \in DOMAIN orders : orders[k].customer_id \in Ids(customers, "customer_id")
    /\ \A k \in DOMAIN order_items :
          order_items[k].product_id \in Ids(products, "product_id")
    /\ \A k \in DOMAIN sessions :
          sessions[k].customer_id # NoCustomer
             => sessions[k].customer_id \in Ids(customers, "customer_id")

\* C7 witness: a finished run with an order, an order item, a session of
\* an existing customer and an anonymous session.
C7_Witness ==
    /\ pc = "done"
    /\ orders # <<>>
    /\ order_items # <<>>
    /\ \E k \in DOMAIN sessions : sessions[k].customer_id # NoCustomer
    /\ \E k \in DOMAIN sessions : sessions[k].customer_id = NoCustomer

\* C8: a candidate is discarded iff u > w / 1.5; a discarded candidate
\* leaves no order row and no order_items row; at most num_orders orders are
\* emitted, with distinct order_ids; every order_items.order_id is the id
\* of exactly one order; a December candidate is never discarded.
C8_Discard ==
    /\ loc.order_id > 0 /\ pc # "error"
          => (loc.skipped <=> 15 * loc.u > 100 * month_weights[loc.month])
    /\ loc.skipped
          => /\ \A k \in DOMAIN orders : orders[k].order_id # loc.order_id
             /\ \A k \in DOMAIN order_items : order_items[k].order_id # loc.order_id
    /\ Len(orders) <= cfg.num_orders
    /\ \A j, k \in DOMAIN orders : orders[j].order_id = orders[k].order_id => j = k
    /\ \A k \in DOMAIN order_items :
          Cardinality({j \in DOMAIN orders :
                          orders[j].order_id = order_items[k].order_id}) = 1
    /\ loc.month = 12 => ~loc.skipped

\* C8 witness: the second candidate was discarded after the first was
\* emitted with its items.
C8_Witness ==
    /\ loc.order_id = 2
    /\ loc.skipped
    /\ Len(orders) = 1
    /\ order_items # <<>>

\* C9 as claimed: with a product table of zero rows generate_orders raises
\* and emits no order; no emitted order is without order items.
C9_EmptyCatalogFatal ==
    /\ products = <<>> => orders = <<>>
    /\ products = <<>> /\ loc.order_id > 0 => pc = "error"
    /\ \A k \in DOMAIN orders : ItemsOf(orders[k]) # <<>>

\* The configuration errors: a zero count, or end_date <= start_date.
ConfigError(c) ==
    \/ c.num_customers = 0
    \/ c.num_products = 0
    \/ c.num_orders = 0
    \/ c.end_date <= c.start_date

\* C10 as claimed: under a configuration error the run aborts before
\* generation starts: no record is produced and the run does not complete.
C10_ConfigErrorAborts ==
    ConfigError(cfg) =>
        /\ customers = <<>>
        /\ products = <<>>
        /\ orders = <<>>
        /\ order_items = <<>>
        /\ sessions = <<>>
        /\ pc # "done"

\* C6 as claimed: the tables generate_all_data returns are a function of
\* the seed and the configuration only: any two runs with the same
\* configuration return the same customers, products, orders, order_items
\* and web_sessions.
C6_RunsIdentical ==
    \A i, j \in DOMAIN runs : runs[i] = runs[j]

\* C11 as claimed: persistence is all-or-nothing: when a persisting step
\* (mkdir, a CSV write, the connection, a CREATE TABLE, a CREATE VIEW) has
\* failed, nothing the earlier steps wrote remains: no CSV file, no
\* database file, no table and no view.
C11_PersistAllOrNothing ==
    err \in PersistErrors => store = EmptyStore

\* C12: customers are complete before the first product row, products
\* before the first order candidate, orders before the first session, and
\* all five tables before anything is persisted; a run that failed during
\* generation (any exception other than those of the persisting steps and
\* of the final summary) has persisted nothing.
C12_StageOrdering ==
    /\ products # <<>> => customers # <<>> /\ Len(customers) = cfg.num_customers
    /\ loc.order_id > 0 \/ orders # <<>> \/ order_items # <<>>
          => products # <<>> /\ Len(products) = cfg.num_products
    /\ sessions # <<>> => orders # <<>> /\ loc.order_id = cfg.num_orders
    /\ store # EmptyStore \/ pc \in {"csv", "tables", "ready"}
          => /\ customers # <<>> /\ products # <<>> /\ orders # <<>>
             /\ sessions # <<>> /\ Len(sessions) = NumSessions(orders, cfg)
    /\ pc = "error" /\ err \notin PersistErrors /\ err # "TypeError: format of None"
          => store = EmptyStore

\* C12 witness: a run of main() that has returned: all five tables were
\* generated, then five CSV files, five tables and three views written.
C12_Witness ==
    /\ pc = "ready"
    /\ Len(store.csv) = 5
    /\ Len(store.tables) = 5
    /\ Len(store.views) = 3
    /\ Len(sessions) = 5 * Len(orders)
    /\ orders # <<>>

\* C14: monthly_revenue has exactly one row for every month in which some
\* order is Completed and no other row; the row's order_count is the
\* number of Completed orders of the month and its revenue the sum of
\* their total_amount, so that an order of another status adds to no row.
C14_MonthlyRevenue ==
    LET v == monthly_revenue(orders)
        done(m) == {k \in DOMAIN orders :
                       orders[k].status = "Completed" /\ MonthOf(orders[k].order_date) = m}
        total == [k \in DOMAIN orders |-> orders[k].total_amount]
    IN  /\ \A m \in 1..12 :
               Cardinality({i \in DOMAIN v : MonthOf(v[i].month) = m})
                   = IF done(m) = {} THEN 0 ELSE 1
        /\ \A i \in DOMAIN v :
               /\ v[i].order_count = Cardinality(done(MonthOf(v[i].month)))
               /\ v[i].revenue = SumOver(total, done(MonthOf(v[i].month)))

\* C14 witness: a Completed order in one month and a Cancelled order in
\* another: the view has one row, of the first month, counting one order.
C14_Witness ==
    /\ Len(monthly_revenue(orders)) = 1
    /\ \E j, k \in DOMAIN orders :
          /\ orders[j].status = "Cancelled"
          /\ orders[k].status = "Completed"
          /\ MonthOf(orders[j].order_date) # MonthOf(orders[k].order_date)
          /\ monthly_revenue(orders)[1].month = DateTruncMonth(orders[k].order_date)
          /\ monthly_revenue(orders)[1].order_count = 1
          /\ monthly_revenue(orders)[1].revenue = orders[k].total_amount

\* C15: customer_ltv has exactly one row per customer and no other row; a
\* customer's total_orders is the number of its orders of any status and
\* its lifetime_value the sum of total_amount over its Completed orders
\* (both 0 for a customer without orders); the total_orders of all rows
\* add up to the number of orders.
C15_CustomerLtv ==
    LET v == customer_ltv(customers, orders)
        of(c) == {k \in DOMAIN orders : orders[k].customer_id = c}
        total == [k \in DOMAIN orders |-> orders[k].total_amount]
        count == [r \in v |-> r.total_orders]
    IN  /\ Cardinality(v) = Len(customers)
        /\ \A i \in DOMAIN customers :
               \E r \in v :
                  /\ r.customer_id = customers[i].customer_id
                  /\ \A q \in v : q.customer_id = r.customer_id => q = r
                  /\ r.total_orders = Cardinality(of(r.customer_id))
                  /\ r.lifetime_value =
                        SumOver(total, {k \in of(r.customer_id) :
                                           orders[k].status = "Completed"})
                  /\ of(r.customer_id) = {}
                        => r.total_orders = 0 /\ r.lifetime_value = 0
        /\ SumOver(count, v) = Len(orders)

\* C15 witness: two customers, one without orders, the other with a
\* Completed and a Cancelled order.
C15_Witness ==
    /\ Len(customers) = 2
    /\ \E r \in customer_ltv(customers, orders) :
          r.total_orders = 0 /\ r.lifetime_value = 0
    /\ \E r \in customer_ltv(customers, orders) :
          /\ r.total_orders = 2
          /\ r.lifetime_value > 0
          /\ \E k \in DOMAIN orders :
                /\ orders[k].customer_id = r.customer_id
                /\ orders[k].status = "Cancelled"
                /\ r.lifetime_value < SumSeq([j \in DOMAIN orders |-> orders[j].total_amount])

\* C16 as claimed: the order whose total_amount a converted session
\* carries as revenue (the order at the session's row position) has status
\* 'Completed'.
C16_ConvertedOrderCompleted ==
    \A k \in DOMAIN sessions :
        sessions[k].converted
            => /\ sessions[k].session_id <= Len(orders)
               /\ orders[sessions[k].session_id].status = "Completed"

(***************************************************************************)
(* The REST API (api/main.py) over the database main() wrote.  A query is  *)
(* the sequence of its clauses in text order; a clause names its keyword,  *)
(* the relations it reads, the columns it references by name (<<relation,  *)
(* column>>, the relation "" when the reference is unqualified; select     *)
(* aliases are not references) and, for the revenue time series, the       *)
(* grouping expression spliced into it.                                    *)
(***************************************************************************)
Clause(kw, rels, cols, expr) == [kw |-> kw, rels |-> rels, cols |-> cols, expr |-> expr]

Unq(names) == {<<"", n>> : n \in names}
Of(rel, names) == {<<rel, n>> : n \in names}

\* The relations a store holds.
Relations(st) == Range(st.tables) \cup Range(st.views)

\* A store built by create_test_database carries the schema its CREATE
\* statements give it, a store written by main() that of Columns.
IsTestDb(st) == "schema" \in DOMAIN st

ColumnsOf(st, rel) ==
    IF IsTestDb(st)
    THEN (IF rel \in DOMAIN st.schema THEN DOMAIN st.schema[rel] ELSE {})
    ELSE Columns(rel)

HasWhere(query) == \E k \in DOMAIN query : query[k].kw = "WHERE"

\* apply_date_filter: with either bound given, the conditions on order_date
\* are appended to the end of the text, after " AND " when the text
\* contains WHERE and after " WHERE " otherwise.
apply_date_filter(query, date_from, date_to) ==
    IF date_from # Null \/ date_to # Null
    THEN Append(query, Clause(IF HasWhere(query) THEN "AND" ELSE "WHERE",
                              {}, Unq({"order_date"}), ""))
    ELSE query

\* str.replace(old, new) of a column name, over the whole text.
ReplaceColumn(query, old, new) ==
    [k \in DOMAIN query |->
        [query[k] EXCEPT !.cols = {IF rc[2] = old THEN <<rc[1], new>> ELSE rc : rc \in @}]]

\* str.replace("FROM rel", "FROM rel " + clause): the clause lands directly
\* after every FROM clause that reads rel.
RECURSIVE InsertAfterFrom(_, _, _)
InsertAfterFrom(query, rel, clause) ==
    IF query = <<>> THEN <<>>
    ELSE LET h == Head(query)
             rest == InsertAfterFrom(Tail(query), rel, clause)
         IN  IF h.kw = "FROM" /\ rel \in h.rels
             THEN <<h, clause>> \o rest
             ELSE <<h>> \o rest

\* The grammar of a SELECT statement: SELECT, FROM, then at most one each
\* of WHERE, GROUP BY, ORDER BY and LIMIT in that order; AND continues the
\* condition of a WHERE.
ClauseRank(kw) ==
    CASE kw = "SELECT" -> 1
      [] kw = "FROM" -> 2
      [] kw = "WHERE" -> 3
      [] kw = "AND" -> 3
      [] kw = "GROUP BY" -> 4
      [] kw = "ORDER BY" -> 5
      [] kw = "LIMIT" -> 6
      [] OTHER -> 0

WellFormed(query) ==
    /\ Len(query) >= 2
    /\ query[1].kw = "SELECT"
    /\ query[2].kw = "FROM"
    /\ \A k \in 2..Len(query) :
         IF query[k].kw = "AND"
         THEN query[k - 1].kw \in {"WHERE", "AND"}
         ELSE ClauseRank(query[k - 1].kw) < ClauseRank(query[k].kw)

Reads(query) == UNION {query[k].rels : k \in DOMAIN query}
References(query) == UNION {query[k].cols : k \in DOMAIN query}

\* A reference binds to a column of the relation it names, an unqualified
\* one to the column of exactly one relation of the query.
Resolves(rc, rels, st) ==
    IF rc[1] # ""
    THEN rc[1] \in rels /\ rc[2] \in ColumnsOf(st, rc[1])
    ELSE Cardinality({r \in rels : rc[2] \in ColumnsOf(st, r)}) = 1

Binds(query, st) ==
    /\ Reads(query) \subseteq Relations(st)
    /\ \A rc \in References(query) : Resolves(rc, Reads(query), st)

\* db.execute(query) returns rows, or raises.
Executes(query, st) == WellFormed(query) /\ Binds(query, st)

ExecuteError(query, st) ==
    IF ~WellFormed(query) THEN "Parser Error"
    ELSE IF ~(Reads(query) \subseteq Relations(st)) THEN "Catalog Error"
    ELSE "Binder Error"

\* The queries a handler issues: those it builds, up to and including the
\* first one that raises.
RECURSIVE Issued(_, _)
Issued(queries, st) ==
    IF queries = <<>> THEN <<>>
    ELSE IF Executes(Head(queries), st)
         THEN <<Head(queries)>> \o Issued(Tail(queries), st)
         ELSE <<Head(queries)>>

\* except Exception as e: raise HTTPException(status_code=500, ...)
HttpError(endpoint, params, queries, st) ==
    LET issued == Issued(queries, st) IN
    [endpoint |-> endpoint, params |-> params, status |-> 500,
     shape |-> "object",
     body |-> [detail |-> ExecuteError(issued[Len(issued)], st)],
     queries |-> issued]

\* A returned dict or model is a JSON object, a returned list a JSON array.
HttpOk(endpoint, params, queries, shape, body) ==
    [endpoint |-> endpoint, params |-> params, status |-> 200,
     shape |-> shape, body |-> body, queries |-> queries]

\* A number the JSON encoder refuses (NaN) in the body: the response is a
\* 500 raised outside the handler.
HttpEncodeError(endpoint, params, queries) ==
    [endpoint |-> endpoint, params |-> params, status |-> 500,
     shape |-> "object", body |-> [detail |-> "ValueError: NaN"],
     queries |-> queries]

\* int(value) of a fetched row raises ValueError inside the handler's try
\* block: the handler answers 500 with the message as detail.
HttpConvertError(endpoint, params, queries) ==
    [endpoint |-> endpoint, params |-> params, status |-> 500,
     shape |-> "object",
     body |-> [detail |-> "ValueError: invalid literal for int()"],
     queries |-> queries]

\* int(v) of a value fetched from a column: an integer column converts, a
\* VARCHAR value converts when it is a numeral.
Numerals == {"0", "1", "2", "3", "4", "5", "6", "7", "8", "9"}

IntRaises(st, rel, col, v) ==
    IF IsTestDb(st) /\ st.schema[rel][col] = "VARCHAR"
    THEN v \notin Numerals
    ELSE FALSE

Respond(endpoint, params, queries, shape, body, st) ==
    IF \A k \in DOMAIN queries : Executes(queries[k], st)
    THEN HttpOk(endpoint, params, queries, shape, body)
    ELSE HttpError(endpoint, params, queries, st)

\* The database file exists and the process that wrote it has ended.
Serving == store.db /\ pc \in {"ready", "error"}

ApiUnchanged == UNCHANGED <<pc, cfg, customers, products, orders, order_items, sessions, loc, err, rng, runs, store, db_manager, conns, ret>>

\* The orders a date filter keeps (dates are day numbers, Null: not given).
InDateRange(orders_t, date_from, date_to) ==
    {k \in DOMAIN orders_t :
        /\ date_from = Null \/ orders_t[k].order_date >= date_from
        /\ date_to = Null \/ orders_t[k].order_date <= date_to}

RevenueGrowth == 52

\* GET /api/v1/analytics/overview.  Amounts of the body are in cents,
\* avg_order_value in micro-dollars (truncated), revenue_growth in tenths
\* and conversion_rate in hundredths of a percent.
get_overview_metrics(date_from, date_to) ==
    LET base_query ==
            <<Clause("SELECT", {}, Unq({"order_id", "customer_id", "status",
                                        "total_amount"}), ""),
              Clause("FROM", {"orders"}, {}, "")>>
        filtered_query == apply_date_filter(base_query, date_from, date_to)
        conversion_text ==
            <<Clause("SELECT", {}, Unq({"converted"}), ""),
              Clause("FROM", {"web_sessions"}, {}, "")>>
        conversion_query ==
            apply_date_filter(ReplaceColumn(conversion_text, "order_date",
                                            "session_date"),
                              date_from, date_to)
        rows == InDateRange(orders, date_from, date_to)
        done == rows \cap CompletedOnly(orders)
        total == [k \in DOMAIN orders |-> orders[k].total_amount]
        conversions == Cardinality({k \in DOMAIN sessions : sessions[k].converted})
        conversion_rate ==
            IF Len(sessions) > 0
            THEN (conversions * 100 * 100 * Cent) \div Len(sessions)
            ELSE 0
        body ==
            [total_revenue |-> SumOver(total, done),
             total_orders |-> Cardinality({orders[k].order_id : k \in rows}),
             total_customers |-> Cardinality({orders[k].customer_id : k \in rows}),
             avg_order_value |->
                 IF done = {} THEN 0
                 ELSE (SumOver(total, done) * Cent) \div Cardinality(done),
             revenue_growth |-> RevenueGrowth,
             conversion_rate |-> Round2(conversion_rate)]
    IN  /\ Serving
        /\ resp' = Respond("overview", [date_from |-> date_from, date_to |-> date_to],
                           <<filtered_query, conversion_query>>, "object", body, store)
        /\ ApiUnchanged

\* time_groupings: the grouping expression of each supported group_by.
time_groupings ==
    [g \in {"day", "week", "month", "quarter"} |->
        CASE g = "day" -> "DATE(order_date)"
          [] g = "week" -> "DATE_TRUNC('week', order_date)"
          [] g = "month" -> "DATE_TRUNC('month', order_date)"
          [] g = "quarter" -> "DATE_TRUNC('quarter', order_date)"]

\* The expression spliced into the time series query: that of group_by,
\* of "month" when group_by is not a key of time_groupings.  A variant
\* that splices the parameter itself.
GroupingRaw(group_by) ==
    IF group_by \in DOMAIN time_groupings THEN time_groupings[group_by] ELSE group_by
Grouping(group_by) ==
    IF group_by \in DOMAIN time_groupings
    THEN time_groupings[group_by]
    ELSE time_groupings["month"]

\* GET /api/v1/analytics/revenue.  The rows of the two lists of the body
\* are not carried: the body is the set of its keys.
get_revenue_analytics(date_from, date_to, group_by) ==
    LET time_text ==
            <<Clause("SELECT", {}, Unq({"order_date", "status", "total_amount",
                                        "order_id"}), Grouping(group_by)),
              Clause("FROM", {"orders"}, {}, "")>>
        time_query ==
            apply_date_filter(time_text, date_from, date_to)
                \o <<Clause("GROUP BY", {}, Unq({"order_date"}), Grouping(group_by)),
                     Clause("ORDER BY", {}, {}, "")>>
        segment_text ==
            <<Clause("SELECT", {},
                     Of("customers", {"customer_segment", "customer_id"})
                         \cup Of("orders", {"status", "total_amount", "order_id"}), ""),
              Clause("FROM", {"customers", "orders"},
                     Of("customers", {"customer_id"})
                         \cup Of("orders", {"customer_id"}), "")>>
        segment_query ==
            apply_date_filter(segment_text, date_from, date_to)
                \o <<Clause("GROUP BY", {}, Of("customers", {"customer_segment"}), ""),
                     Clause("ORDER BY", {}, {}, "")>>
    IN  /\ Serving
        /\ resp' = Respond("revenue",
                           [date_from |-> date_from, date_to |-> date_to,
                            group_by |-> group_by],
                           <<time_query, segment_query>>, "object",
                           {"time_series", "by_segment"}, store)
        /\ ApiUnchanged

\* GET /api/v1/analytics/customers; segment "" is the parameter not given.
\* Of rfm_query the clauses of the innermost SELECT are carried, the only
\* ones that read relations of the store.
get_customer_analytics(segment) ==
    LET rfm_query ==
            <<Clause("SELECT", {},
                     Of("customers", {"customer_id", "customer_segment"})
                         \cup Of("orders", {"order_date", "order_id", "status",
                                            "total_amount"}), ""),
              Clause("FROM", {"customers", "orders"},
                     Of("customers", {"customer_id"})
                         \cup Of("orders", {"customer_id"}), ""),
              Clause("WHERE", {}, Of("customers", {"registration_date"}), ""),
              Clause("GROUP BY", {},
                     Of("customers", {"customer_id", "customer_segment"}), "")>>
        acquisition_text ==
            <<Clause("SELECT", {}, Unq({"acquisition_channel", "lifetime_value",
                                        "total_orders"}), ""),
              Clause("FROM", {"customer_ltv"}, {}, ""),
              Clause("WHERE", {}, Unq({"total_orders"}), ""),
              Clause("GROUP BY", {}, Unq({"acquisition_channel"}), ""),
              Clause("ORDER BY", {}, {}, "")>>
        acquisition_query ==
            IF segment # ""
            THEN InsertAfterFrom(acquisition_text, "customer_ltv",
                                 Clause("WHERE", {}, Unq({"customer_segment"}), ""))
            ELSE acquisition_text
    IN  /\ Serving
        /\ resp' = Respond("customers", [segment |-> segment],
                           <<rfm_query, acquisition_query>>, "object",
                           {"rfm_segments", "acquisition_channels"}, store)
        /\ ApiUnchanged

\* ROUND(SUM(total_revenue), 2) of a category none of whose products was
\* ordered is NULL, float() of it NaN.
UnsoldCategory ==
    \E j \in DOMAIN products :
        \A k \in DOMAIN products :
            products[k].category = products[j].category
                => \A i \in DOMAIN order_items :
                       order_items[i].product_id # products[k].product_id

\* GET /api/v1/analytics/products; category "" is the parameter not given.
get_product_analytics(category, limit) ==
    LET where_text ==
            <<Clause("SELECT", {}, Unq({"product_name", "category", "times_ordered",
                                        "total_quantity_sold", "total_revenue",
                                        "avg_selling_price", "avg_profit_per_unit"}), ""),
              Clause("FROM", {"product_performance"}, {}, ""),
              Clause("WHERE", {}, Unq({"times_ordered"}), "")>>
        products_query ==
            (IF category # ""
             THEN Append(where_text, Clause("AND", {}, Unq({"category"}), ""))
             ELSE where_text)
                \o <<Clause("ORDER BY", {}, Unq({"total_revenue"}), ""),
                     Clause("LIMIT", {}, {}, "")>>
        category_query ==
            <<Clause("SELECT", {}, Unq({"category", "times_ordered",
                                        "total_revenue"}), ""),
              Clause("FROM", {"product_performance"}, {}, ""),
              Clause("GROUP BY", {}, Unq({"category"}), ""),
              Clause("ORDER BY", {}, {}, "")>>
        queries == <<products_query, category_query>>
        params == [category |-> category, limit |-> limit]
    IN  /\ Serving
        /\ resp' = IF UnsoldCategory /\ ~IsTestDb(store) /\ \A k \in DOMAIN queries : Executes(queries[k], store)
                   THEN HttpEncodeError("products", params, queries)
                   ELSE Respond("products", params, queries, "object",
                                {"top_products", "category_performance"}, store)
        /\ ApiUnchanged

\* GET /api/v1/analytics/marketing.
get_marketing_analytics ==
    LET traffic_query ==
            <<Clause("SELECT", {}, Unq({"traffic_source", "converted",
                                        "session_duration_seconds", "page_views",
                                        "revenue"}), ""),
              Clause("FROM", {"web_sessions"}, {}, ""),
              Clause("GROUP BY", {}, Unq({"traffic_source"}), ""),
              Clause("ORDER BY", {}, {}, "")>>
        device_query ==
            <<Clause("SELECT", {}, Unq({"device_type", "session_duration_seconds",
                                        "page_views", "bounced", "converted"}), ""),
              Clause("FROM", {"web_sessions"}, {}, ""),
              Clause("GROUP BY", {}, Unq({"device_type"}), ""),
              Clause("ORDER BY", {}, {}, "")>>
    IN  /\ Serving
        /\ resp' = Respond("marketing", [none |-> TRUE],
                           <<traffic_query, device_query>>, "object",
                           {"traffic_sources", "device_performance"}, store)
        /\ ApiUnchanged

\* ORDER BY order_date DESC: the row positions of orders from the latest
\* date to the earliest, rows of one date in any order.
DescByDate(orders_t) ==
    {s \in [DOMAIN orders_t -> DOMAIN orders_t] :
        /\ \A a, b \in DOMAIN s : a # b => s[a] # s[b]
        /\ \A a, b \in DOMAIN s :
             a < b => orders_t[s[a]].order_date >= orders_t[s[b]].order_date}

RecentOrder(o) ==
    [order_id |-> o.order_id, customer_id |-> o.customer_id,
     order_date |-> o.order_date, status |-> o.status,
     payment_method |-> o.payment_method, total_amount |-> o.total_amount]

\* GET /api/v1/reports/recent-orders: LIMIT ? bound to limit (>= 0).
get_recent_orders(limit) ==
    LET query ==
            <<Clause("SELECT", {}, Unq({"order_id", "customer_id", "order_date",
                                        "status", "payment_method",
                                        "total_amount"}), ""),
              Clause("FROM", {"orders"}, {}, ""),
              Clause("ORDER BY", {}, Unq({"order_date"}), ""),
              Clause("LIMIT", {}, {}, "")>>
    IN  /\ Serving
        /\ \E s \in DescByDate(orders) :
             LET fetched == [i \in 1..Min(limit, Len(orders)) |-> orders[s[i]]] IN
             resp' = IF /\ Executes(query, store)
                        /\ \E i \in DOMAIN fetched :
                              \/ IntRaises(store, "orders", "order_id", fetched[i].order_id)
                              \/ IntRaises(store, "orders", "customer_id", fetched[i].customer_id)
                     THEN HttpConvertError("recent-orders", [limit |-> limit], <<query>>)
                     ELSE Respond("recent-orders", [limit |-> limit], <<query>>, "object",
                                  [recent_orders |->
                                      [i \in DOMAIN fetched |-> RecentOrder(fetched[i])]],
                                  store)
        /\ ApiUnchanged

(***************************************************************************)
(* SpecApi: requests against the database of a run of main() that wrote    *)
(* all five tables and the three views.  The run is given by its draws:    *)
(* draws[k] = <<sampled customer row, days draw, status>> of order k, each *)
(* order of one unit of the first product; no session of a customer.       *)
(***************************************************************************)
ApiCatalog == <<<<"Clothing", 20085, 40>>, <<"Books", 20085, 40>>>>

OrdersTable(customers_t, products_t, c, draws) ==
    [k \in DOMAIN draws |->
        LET items == ItemRows(k, products_t, <<1>>, <<<<1, 10>>>>) IN
        OrderRow(k, SampledCustomerId(customers_t, draws[k][1]),
                 DateBack(c.end_date, c.start_date, draws[k][2]),
                 draws[k][3], "Credit Card", ShippingCost(50, 9996), items,
                 DiscountRate(OrderTotal(items), 10, 50, 15))]

OrderItemsTable(products_t, n) ==
    [k \in 1..n |-> ItemRows(k, products_t, <<1>>, <<<<1, 10>>>>)[1]]

SessionsTable(orders_t, c) ==
    [i \in 1..NumSessions(orders_t, c) |-> SessionRow(i, NoCustomer, 0, orders_t, c)]

LoadedStore ==
    [csv |-> DatasetNames,
     csv_rows |-> [k \in DOMAIN DatasetNames |->
                      to_csv(Frame(DatasetNames[k]), DatasetNames[k])],
     db |-> TRUE,
     tables |-> DatasetNames,
     table_rows |-> [k \in DOMAIN DatasetNames |->
                        create_table(Frame(DatasetNames[k]), DatasetNames[k])],
     views |-> ViewNames]

DefaultLimit == 50
DefaultProductLimit == 20

DateParams == {Null, Jan1}
GroupByParams == {"day", "week", "month", "quarter", "year", ""}
SegmentParams == {"", "Premium"}
CategoryParams == {"", "Books"}
LimitParams == {Null, 0, 1}

InitApi ==
    \E nc \in {MaxCustomers}, np \in {1, MaxProducts}, no \in {1, MaxOrders} :
      \E draws \in [1..no -> {nc} \X {0, 450} \X {"Completed", "Cancelled"}] :
        LET c == Config(nc, np, no, Jan1, Dec31) IN
        /\ cfg = c
        /\ customers = CustomerTable(nc, c)
        /\ products = ProductTable(np, ApiCatalog)
        /\ orders = OrdersTable(customers, products, c, draws)
        /\ order_items = OrderItemsTable(products, no)
        /\ sessions = SessionsTable(orders, c)
        /\ loc = NoLoc
        /\ rng = Seed
        /\ runs = <<>>
        /\ store = LoadedStore
        /\ resp = NoResp
        /\ db_manager = NewManager
        /\ conns = <<>>
        /\ ret = NoCall
        /\ pc = IF SummaryRaises THEN "error" ELSE "ready"
        /\ err = IF SummaryRaises THEN "TypeError: format of None" ELSE ""

Overview == \E date_from \in DateParams, date_to \in DateParams : get_overview_metrics(date_from, date_to)

RevenueAnalytics == \E date_from \in DateParams, date_to \in DateParams, group_by \in GroupByParams : get_revenue_analytics(date_from, date_to, group_by)

CustomerAnalytics == \E segment \in SegmentParams : get_customer_analytics(segment)

ProductAnalytics == \E category \in CategoryParams, limit \in LimitParams : get_product_analytics(category, IF limit = Null THEN DefaultProductLimit ELSE limit)

MarketingAnalytics == get_marketing_analytics

RecentOrders == \E limit \in LimitParams : get_recent_orders(IF limit = Null THEN DefaultLimit ELSE limit)

NextApi ==
    \/ Overview
    \/ RevenueAnalytics
    \/ CustomerAnalytics
    \/ ProductAnalytics
    \/ MarketingAnalytics
    \/ RecentOrders

SpecApi == InitApi /\ [][NextApi]_vars

(***************************************************************************)
(* Properties of the REST API.                                             *)
(***************************************************************************)
\* C13: every column a query of the REST API references by name exists,
\* under that name, in a relation of the store the query reads (and in the
\* relation it is qualified with).
C13_QueriedColumnsExist ==
    resp # NoResp =>
        \A k \in DOMAIN resp.queries :
            \A rc \in References(resp.queries[k]) :
                \E r \in Reads(resp.queries[k]) :
                    /\ r \in Relations(store)
                    /\ rc[2] \in Columns(r)
                    /\ rc[1] \in {"", r}

\* C17: GET /api/v1/analytics/overview (no parameters) answers 200 with a
\* body holding the numeric fields total_revenue, total_orders,
\* avg_order_value and customer_count.
C17_OverviewFields ==
    (/\ resp.endpoint = "overview"
     /\ resp.params.date_from = Null
     /\ resp.params.date_to = Null)
        => /\ resp.status = 200
           /\ {"total_revenue", "total_orders", "avg_order_value",
               "customer_count"} \subseteq DOMAIN resp.body
           /\ \A f \in {"total_revenue", "total_orders", "avg_order_value",
                        "customer_count"} : resp.body[f] \in Int

\* C18: GET /api/v1/reports/recent-orders answers 200 with a body that is
\* a list of at most `limit` orders (50 when limit is not given), each
\* with order_id and order_date.
C18_RecentOrdersList ==
    resp.endpoint = "recent-orders"
        => /\ resp.status = 200
           /\ resp.shape = "array"
           /\ Len(resp.body) <= resp.params.limit
           /\ \A i \in DOMAIN resp.body :
                  {"order_id", "order_date"} \subseteq DOMAIN resp.body[i]

\* C19: GET /api/v1/analytics/revenue answers 200 for every group_by; the
\* grouping expression in the SELECT list and the GROUP BY clause of the
\* time series query is the one of group_by when group_by is day, week,
\* month or quarter and the month expression otherwise, so always one of
\* the four fixed expressions and never the parameter itself.
C19_GroupingFixed ==
    resp.endpoint = "revenue"
        => LET time_query == resp.queries[1]
               exprs == {time_query[k].expr :
                            k \in {j \in DOMAIN time_query :
                                      time_query[j].kw \in {"SELECT", "GROUP BY"}}}
               group_by == resp.params.group_by
           IN  /\ resp.status = 200
               /\ exprs \subseteq Range(time_groupings)
               /\ group_by \in {"day", "week", "month", "quarter"}
                      => exprs = {time_groupings[group_by]}
               /\ group_by \notin {"day", "week", "month", "quarter"}
                      => exprs = {time_groupings["month"]}

\* An unsupported group_by answered 200 from the month expression.
C19_Witness ==
    /\ resp.endpoint = "revenue"
    /\ resp.params.group_by = "year"
    /\ resp.params.date_from # Null
    /\ resp.status = 200
    /\ resp.queries[1][1].expr = "DATE_TRUNC('month', order_date)"
    /\ resp.queries[1][Len(resp.queries[1]) - 1].expr = "DATE_TRUNC('month', order_date)"

\* C20: GET /api/v1/analytics/customers with a segment answers 200 from an
\* acquisition query that is well formed and has exactly one WHERE clause.
C20_SegmentQueryWellFormed ==
    (resp.endpoint = "customers" /\ resp.params.segment # "")
        => /\ resp.status = 200
           /\ Len(resp.queries) = 2
           /\ WellFormed(resp.queries[2])
           /\ Cardinality({k \in DOMAIN resp.queries[2] :
                              resp.queries[2][k].kw = "WHERE"}) = 1

(***************************************************************************)
(* SpecDiscount: generate_orders over one product priced 200.00, bought    *)
(* once at full price (subtotal exactly 200), once at half price (100) or  *)
(* twice (400); the discount draws at both ends of their ranges.           *)
(***************************************************************************)
DiscountCatalog == <<<<"Clothing", 200000, 40>>>>

DiscountDraws ==
    [BaseDraws EXCEPT !.u = {0, 99},
                      !.item = {<<1, 10>>, <<1, 5>>, <<2, 10>>},
                      !.sample_pick = {0},
                      !.big_rate = {5, 14},
                      !.promo_u = {9, 10},
                      !.promo_rate = {10, 24}]

InitDiscount == InitStage("orders", {1}, {1}, 0..MaxOrders, DiscountCatalog)

DiscountIter == generate_orders_iter(DiscountDraws) /\ UNCHANGED <<rng, runs, store, resp, db_manager, conns, ret>>

NextDiscount == DiscountIter \/ OrdersReturn

SpecDiscount == InitDiscount /\ [][NextDiscount]_vars

\* The order the last iteration emitted, if it emitted one.
Emitted == loc.order_id > 0 /\ ~loc.skipped /\ orders # <<>>
LastOrder == orders[Len(orders)]

\* C22: for the order an iteration emits, with item subtotal S and discount
\* rate r: r is in [0.05, 0.15] when S > 200, otherwise 0 or in [0.10,
\* 0.25]; discount_amount = S * r, tax_amount = 0.08 * (S - discount_amount)
\* and total_amount = S - discount_amount + tax_amount + shipping_cost
\* (to the micro-dollar), S being the sum over all items of the order; the
\* row holds each amount rounded to cents.  Hence the discount is positive
\* when S > 200 and at most 0.25 * S.
C22_DiscountTaxTotal ==
    Emitted =>
        LET o == LastOrder
            S == o.order_total
            r == loc.discount_rate
            items == ItemsOf(o)
        IN  /\ S = SumSeq([k \in DOMAIN items |-> items[k].item_total])
            /\ S > 200 * 100 * Cent => r >= 5 /\ r <= 15
            /\ S <= 200 * 100 * Cent => r = 0 \/ (r >= 10 /\ r <= 25)
            /\ S % 100 = 0 /\ loc.discount_amount = (S \div 100) * r
            /\ loc.tax_amount >= 8 * ((S - loc.discount_amount) \div 100)
            /\ loc.tax_amount <= 8 * ((S - loc.discount_amount) \div 100) + 8
            /\ loc.total_amount =
                  S - loc.discount_amount + loc.tax_amount + Max(0, loc.shipping_draw)
            /\ o.discount_amount = Round2(loc.discount_amount)
            /\ o.tax_amount = Round2(loc.tax_amount)
            /\ o.total_amount = Round2(loc.total_amount)
            /\ S > 200 * 100 * Cent => loc.discount_amount > 0 /\ o.discount_amount > 0
            /\ 4 * loc.discount_amount <= S

\* C22 witness: an order of subtotal exactly 200 without discount after an
\* order of subtotal 400 with one.
C22_Witness ==
    /\ Emitted
    /\ Len(orders) = 2
    /\ orders[1].order_total = 400 * 100 * Cent
    /\ orders[1].discount_amount > 0
    /\ LastOrder.order_total = 200 * 100 * Cent
    /\ loc.discount_rate = 0
    /\ LastOrder.total_amount > 0

(***************************************************************************)
(* SpecItems: generate_orders over products priced 1.13 and 1.03, with the *)
(* price variation below its floor, at 1.0 and at 1.1, one or two units.   *)
(***************************************************************************)
ItemCatalog == <<<<"Clothing", 1130, 40>>, <<"Clothing", 1030, 40>>>>

ItemDraws ==
    [BaseDraws EXCEPT !.u = {0, 99},
                      !.num_items = {1, 2},
                      !.item = {<<0, 3>>, <<1, 10>>, <<2, 11>>},
                      !.sample_pick = {0, 1}]

InitItems == InitStage("orders", {1}, 1..MaxProducts, 0..MaxOrders, ItemCatalog)

ItemsIter == generate_orders_iter(ItemDraws) /\ UNCHANGED <<rng, runs, store, resp, db_manager, conns, ret>>

NextItems == ItemsIter \/ OrdersReturn

SpecItems == InitItems /\ [][NextItems]_vars

\* The stored price (cents) of the product an order_items row references.
PriceOf(it) == products[CHOOSE j \in DOMAIN products : products[j].product_id = it.product_id].price

\* C23 as claimed: every stored order_items row has quantity >= 1,
\* unit_price >= 0.5 * the referenced product's price and
\* total_price = quantity * unit_price.
C23_ItemExact ==
    \A k \in DOMAIN order_items :
        /\ order_items[k].quantity >= 1
        /\ 2 * order_items[k].unit_price >= PriceOf(order_items[k])
        /\ order_items[k].total_price = order_items[k].quantity * order_items[k].unit_price

\* C23 as amended: every stored order_items row has quantity >= 1,
\* unit_price >= 0.5 * the product's price - 0.005 and total_price within
\* 0.005 * (quantity + 1) of quantity * unit_price, both columns being
\* roundings to cents of the unrounded unit price and its multiple.
C23_ItemWithinRounding ==
    \A k \in DOMAIN order_items :
        LET it == order_items[k] IN
        /\ it.quantity >= 1
        /\ 2 * it.unit_price >= PriceOf(it) - 1
        /\ 2 * Abs(it.total_price - it.quantity * it.unit_price) <= it.quantity + 1
        /\ it.total_price = Round2(it.item_total)
        /\ 2 * Abs(it.unit_price * Cent * it.quantity - it.item_total) <= it.quantity * Cent

\* C23 witness: a row at the price floor whose stored unit_price is below
\* half the product's price, and a row of two units whose stored
\* total_price is not twice its stored unit_price.
C23_Witness ==
    /\ \E k \in DOMAIN order_items :
          2 * order_items[k].unit_price < PriceOf(order_items[k])
    /\ \E k \in DOMAIN order_items :
          /\ order_items[k].quantity = 2
          /\ order_items[k].total_price # 2 * order_items[k].unit_price

\* C24: within one order no product_id is on two order_items rows; the
\* order an iteration emits has min(max(1, n), catalog size) items, n the
\* Poisson draw; with a non-empty catalog every order has at least one and
\* at most catalog-size items.
C24_DistinctItems ==
    /\ \A k \in DOMAIN orders :
          LET items == ItemsOf(orders[k]) IN
          /\ \A i, j \in DOMAIN items :
                items[i].product_id = items[j].product_id => i = j
          /\ products # <<>> => Len(items) >= 1 /\ Len(items) <= Len(products)
    /\ Emitted =>
          LET n == IF loc.num_items < 1 THEN 1 ELSE loc.num_items
          IN  Len(ItemsOf(LastOrder))
                  = (IF n > Len(products) THEN Len(products) ELSE n)

\* C24 witness: a draw of 5 over a catalog of two products gave an order of
\* both, after a draw of 0 gave an order of one item.
C24_Witness ==
    /\ Emitted
    /\ Len(products) = MaxProducts
    /\ Len(orders) = 2
    /\ loc.num_items = 5
    /\ Len(ItemsOf(LastOrder)) = Len(products)
    /\ Len(ItemsOf(orders[1])) = 1

(***************************************************************************)
(* SpecPositional: generate_orders with candidates in December (never      *)
(* skipped) and January (skipped at u = 0.99), then generate_web_analytics *)
(* with sessions of a customer and of none.                                *)
(***************************************************************************)
PositionalDraws ==
    [BaseDraws EXCEPT !.order_days = {0, 99990},
                      !.u = {0, 99},
                      !.ship_coin = {5, 50},
                      !.sess_coin = {30, 99}]

InitPositional == InitStage("orders", {1}, {1}, 0..MaxOrders, ViewsCatalog)

PositionalIter == generate_orders_iter(PositionalDraws) /\ UNCHANGED <<rng, runs, store, resp, db_manager, conns, ret>>
PositionalRow == generate_web_analytics_row(PositionalDraws) /\ UNCHANGED <<rng, runs, store, resp, db_manager, conns, ret>>

NextPositional == PositionalIter \/ OrdersReturn \/ PositionalRow \/ SessionsReturn

SpecPositional == InitPositional /\ [][NextPositional]_vars

\* C25: session i is converted iff i <= |orders|, and its revenue is then
\* the total_amount of the order at row position i (whatever that order's
\* order_id and whatever the session's customer_id), else 0; when
\* generate_web_analytics has returned, exactly |orders| sessions are
\* converted and the revenues sum to the sum of total_amount over orders.
C25_PositionalConversion ==
    /\ \A i \in DOMAIN sessions :
          /\ sessions[i].session_id = i
          /\ sessions[i].converted <=> i <= Len(orders)
          /\ sessions[i].revenue =
                IF i <= Len(orders) THEN orders[i].total_amount ELSE 0
    /\ pc = "done" =>
          /\ Cardinality({i \in DOMAIN sessions : sessions[i].converted}) = Len(orders)
          /\ SumSeq([i \in DOMAIN sessions |-> sessions[i].revenue])
                = SumSeq([k \in DOMAIN orders |-> orders[k].total_amount])

\* C25 witness: the only emitted order has order_id 2 (candidate 1 was
\* skipped); session 1, of a customer, is converted with that order's
\* total_amount, session 2 is not converted.
C25_Witness ==
    /\ pc = "done"
    /\ Len(orders) = 1
    /\ orders[1].order_id = 2
    /\ orders[1].total_amount > 0
    /\ sessions[1].converted
    /\ sessions[1].customer_id # NoCustomer
    /\ sessions[1].revenue = orders[1].total_amount
    /\ ~sessions[2].converted
    /\ sessions[2].revenue = 0

\* C26: under a configuration with start_date <= end_date every customer's
\* registration_date and every emitted order's order_date lies in
\* [start_date, end_date], whatever the exponential draw.
C26_DatesClipped ==
    cfg.start_date <= cfg.end_date =>
        /\ \A k \in DOMAIN customers :
              /\ cfg.start_date <= customers[k].registration_date
              /\ customers[k].registration_date <= cfg.end_date
        /\ \A k \in DOMAIN orders :
              /\ cfg.start_date <= orders[k].order_date
              /\ orders[k].order_date <= cfg.end_date

\* C26 witness: over a range of a year, a customer and an order whose draws
\* exceeded the range, dated start_date.
C26_Witness ==
    /\ cfg.start_date < cfg.end_date
    /\ \E k \in DOMAIN customers : customers[k].registration_date = cfg.start_date
    /\ \E k \in DOMAIN orders : orders[k].order_date = cfg.start_date

\* C27: generate_orders leaves customers and products unchanged,
\* generate_web_analytics leaves customers, products, orders and
\* order_items unchanged, and once generate_all_data has returned no table
\* changes; every CSV file written and every table loaded holds exactly
\* the rows of the generated table it is named after, in order, under the
\* table's column names.
C27_NoLaterMutation ==
    /\ [](/\ \A k \in DOMAIN store.csv :
               LET df == Frame(store.csv[k]) IN
               /\ Len(store.csv_rows[k]) = Len(df)
               /\ \A i \in DOMAIN df :
                     /\ DOMAIN store.csv_rows[k][i]
                           = Columns(store.csv[k]) \cap DOMAIN df[i]
                     /\ \A c \in DOMAIN store.csv_rows[k][i] :
                           store.csv_rows[k][i][c] = df[i][c]
          /\ \A k \in DOMAIN store.tables :
               LET df == Frame(store.tables[k]) IN
               /\ Len(store.table_rows[k]) = Len(df)
               /\ \A i \in DOMAIN df :
                     /\ DOMAIN store.table_rows[k][i]
                           = Columns(store.tables[k]) \cap DOMAIN df[i]
                     /\ \A c \in DOMAIN store.table_rows[k][i] :
                           store.table_rows[k][i][c] = df[i][c])
    /\ [][/\ pc = "orders" => customers' = customers /\ products' = products
          /\ pc = "sessions" =>
                /\ customers' = customers /\ products' = products
                /\ orders' = orders /\ order_items' = order_items
          /\ pc \in {"done", "csv", "tables", "ready", "error"} =>
                UNCHANGED <<customers, products, orders, order_items, sessions>>
          /\ \A k \in DOMAIN store.csv :
                k \in DOMAIN store'.csv /\ store'.csv_rows[k] = store.csv_rows[k]
          /\ \A k \in DOMAIN store.tables :
                k \in DOMAIN store'.tables /\ store'.table_rows[k] = store.table_rows[k]]_vars

\* C27 witness: all five files and tables written from a run with an
\* order; the orders table has the order's columns and the sessions file
\* its five rows.
C27_Witness ==
    /\ pc = "ready"
    /\ Len(store.csv_rows) = 5
    /\ Len(store.table_rows) = 5
    /\ Len(store.table_rows[3]) = 1
    /\ store.table_rows[3][1].total_amount = orders[1].total_amount
    /\ "order_date" \in DOMAIN store.table_rows[3][1]
    /\ Len(store.csv_rows[5]) = 5
    /\ store.csv_rows[5][1].converted

\* C21: GET /api/v1/analytics/overview with date_from and/or date_to
\* answers 200, and the date conditions of its web_sessions query are on
\* session_date, never on order_date.
C21_OverviewDateFilter ==
    (/\ resp.endpoint = "overview"
     /\ resp.params.date_from # Null \/ resp.params.date_to # Null)
        => /\ resp.status = 200
           /\ Len(resp.queries) = 2
           /\ LET q == resp.queries[2]
                  conds == UNION {q[k].cols : k \in {j \in DOMAIN q :
                                                        q[j].kw \in {"WHERE", "AND"}}}
              IN  /\ Reads(q) = {"web_sessions"}
                  /\ <<"", "session_date">> \in conds
                  /\ <<"", "order_date">> \notin conds

(***************************************************************************)
(* DatabaseManager (api/main.py): the global db_manager, its connections   *)
(* and the calls lifespan() and get_db() make on it, in any order.         *)
(***************************************************************************)
MaxConns == 3

ManagerUnchanged == UNCHANGED <<pc, cfg, customers, products, orders, order_items, sessions, loc, err, rng, runs, store, resp>>

\* initialize(): sets db_path, raises FileNotFoundError unless the file
\* exists, else opens a read-only connection and keeps it in self.conn.
\* The result: the manager, the connections and the exception raised.
Initialize(m, cs, st) ==
    IF ~st.db
    THEN [m |-> [m EXCEPT !.db_path = "data/ecommerce.duckdb"], cs |-> cs,
          raised |-> "FileNotFoundError"]
    ELSE [m |-> [db_path |-> "data/ecommerce.duckdb", conn |-> Len(cs) + 1],
          cs |-> Append(cs, "open"), raised |-> ""]

\* if not self.conn: a connection object, open or closed, is truthy.
HasConn(m, cs) == m.conn # NoConn

initialize ==
    /\ Len(conns) < MaxConns
    /\ LET r == Initialize(db_manager, conns, store) IN
       /\ db_manager' = r.m
       /\ conns' = r.cs
       /\ ret' = [op |-> "initialize", conn |-> NoConn, closed |-> FALSE,
                  raised |-> r.raised]
    /\ ManagerUnchanged

\* get_connection(): initialize() when there is no self.conn, then return
\* self.conn; ret.closed tells whether the returned connection is closed.
get_connection ==
    /\ HasConn(db_manager, conns) \/ Len(conns) < MaxConns
    /\ LET r == IF HasConn(db_manager, conns)
                THEN [m |-> db_manager, cs |-> conns, raised |-> ""]
                ELSE Initialize(db_manager, conns, store)
       IN  /\ db_manager' = r.m
           /\ conns' = r.cs
           /\ ret' = IF r.raised # ""
                     THEN [op |-> "get_connection", conn |-> NoConn,
                           closed |-> FALSE, raised |-> r.raised]
                     ELSE [op |-> "get_connection", conn |-> r.m.conn,
                           closed |-> r.cs[r.m.conn] = "closed", raised |-> ""]
    /\ ManagerUnchanged

\* close(): closes self.conn if there is one; self.conn keeps the object.
close ==
    /\ conns' = IF db_manager.conn # NoConn
                THEN [conns EXCEPT ![db_manager.conn] = "closed"]
                ELSE conns
    /\ ret' = [op |-> "close", conn |-> NoConn, closed |-> FALSE, raised |-> ""]
    /\ UNCHANGED db_manager
    /\ ManagerUnchanged

\* The data directory after a run that wrote everything, or one that
\* failed before writing anything.
InitManager ==
    \E status \in {"Completed", "Cancelled"}, present \in BOOLEAN, np \in {1, MaxProducts} :
        LET c == Config(1, np, 1, Jan1, Dec31) IN
        /\ cfg = c
        /\ customers = CustomerTable(1, c)
        /\ products = ProductTable(np, ApiCatalog)
        /\ orders = OrdersTable(customers, products, c, <<<<1, 0, status>>>>)
        /\ order_items = OrderItemsTable(products, 1)
        /\ sessions = SessionsTable(orders, c)
        /\ loc = NoLoc
        /\ rng = Seed
        /\ runs = <<>>
        /\ store = IF present THEN LoadedStore ELSE EmptyStore
        /\ resp = NoResp
        /\ db_manager = NewManager
        /\ conns = <<>>
        /\ ret = NoCall
        /\ pc = IF present /\ ~SummaryRaises THEN "ready" ELSE "error"
        /\ err = IF ~present THEN "OSError: mkdir"
                 ELSE IF SummaryRaises THEN "TypeError: format of None" ELSE ""

NextManager == initialize \/ get_connection \/ close

SpecManager == InitManager /\ [][NextManager]_vars

\* C28: with the database file present, get_connection() never returns a
\* connection that has been closed.
C28_NeverClosedConnection ==
    (store.db /\ ret.op = "get_connection") => ret.raised = "" /\ ~ret.closed

(***************************************************************************)
(* The RFM classification: the CASE expression of rfm_query (api/main.py)  *)
(* and of customer_analysis (02_basic_analysis.py), as functions of        *)
(* r_score and f_score (NTILE(5) values, 1..5).                            *)
(***************************************************************************)
rfm_labels == <<"Champions", "Loyal Customers", "Potential Loyalists", "New Customers", "At Risk", "Cannot Lose Them", "Hibernating">>

\* The condition of the k-th WHEN clause of the API's CASE.
ApiWhen(k, r_score, f_score) ==
    CASE k = 1 -> r_score >= 4 /\ f_score >= 4
      [] k = 2 -> r_score >= 3 /\ f_score >= 3
      [] k = 3 -> r_score >= 3 /\ f_score >= 2
      [] k = 4 -> r_score >= 4 /\ f_score <= 2
      [] k = 5 -> r_score >= 2 /\ f_score >= 3
      [] k = 6 -> r_score <= 2 /\ f_score >= 4
      [] k = 7 -> r_score <= 2 /\ f_score <= 2

\* The condition of the k-th WHEN clause of the analysis script's CASE.
AnalysisWhen(k, r_score, f_score) ==
    CASE k = 1 -> r_score >= 4 /\ f_score >= 4
      [] k = 2 -> r_score >= 3 /\ f_score >= 3
      [] k = 3 -> r_score >= 3 /\ f_score >= 2
      [] k = 4 -> r_score >= 4 /\ f_score <= 2
      [] k = 5 -> r_score >= 2 /\ f_score >= 3
      [] k = 6 -> r_score <= 2 /\ f_score >= 4
      [] k = 7 -> r_score <= 2 /\ f_score <= 2

\* CASE WHEN ... END, hits the clauses whose condition holds: the label of
\* the first of them, 'Others' when there is none.
CaseWhen(hits) ==
    IF hits = {} THEN "Others"
    ELSE rfm_labels[CHOOSE k \in hits : \A j \in hits : k <= j]

api_rfm_segment(r_score, f_score) ==
    CaseWhen({k \in DOMAIN rfm_labels : ApiWhen(k, r_score, f_score)})

analysis_rfm_segment(r_score, f_score) ==
    CaseWhen({k \in DOMAIN rfm_labels : AnalysisWhen(k, r_score, f_score)})

\* Both classifications applied to one pair of scores.
Classify ==
    /\ \E r_score \in 1..5, f_score \in 1..5 :
          resp' = [endpoint |-> "rfm_segment",
                   params |-> [r_score |-> r_score, f_score |-> f_score],
                   api |-> api_rfm_segment(r_score, f_score),
                   analysis |-> analysis_rfm_segment(r_score, f_score)]
    /\ ApiUnchanged

SpecRfm == InitApi /\ [][Classify]_vars

\* C29: every pair of scores gets one label, the same from both copies,
\* and a label is assigned to exactly the pairs that satisfy its own
\* condition, whatever the order of the WHEN clauses.
C29_RfmOrderIndependent ==
    resp.endpoint = "rfm_segment" =>
        /\ resp.api = resp.analysis
        /\ resp.api \in Range(rfm_labels) \cup {"Others"}
        /\ \A k \in DOMAIN rfm_labels :
              resp.api = rfm_labels[k]
                  <=> ApiWhen(k, resp.params.r_score, resp.params.f_score)

(***************************************************************************)
(* create_test_database (create_test_db.py): the minimal database of the   *)
(* CI run.  Row counts are scaled to the bounds of the model; dates are    *)
(* day numbers of 2024, amounts are in cents.                              *)
(***************************************************************************)
segments == <<"Premium", "Standard", "Basic", "VIP">>
channels == <<"organic", "paid_search", "social_media", "email", "direct", "referral">>
categories == <<"Electronics", "Clothing", "Books", "Home">>

\* f"{i:0{w}d}"
Digit == <<"0", "1", "2", "3", "4", "5", "6", "7", "8", "9">>

RECURSIVE Zfill(_, _)
Zfill(i, w) == IF w = 0 THEN "" ELSE Zfill(i \div 10, w - 1) \o Digit[(i % 10) + 1]

\* datetime(2023, 1, 1)
base_date == Jan1 - 365

\* CREATE TABLE / CREATE VIEW of create_test_database: the columns of each
\* relation and their types (str: VARCHAR, int: BIGINT, float: DOUBLE).
TestSchema ==
    [customers |->
        [customer_id |-> "VARCHAR", first_name |-> "VARCHAR", last_name |-> "VARCHAR",
         email |-> "VARCHAR", registration_date |-> "VARCHAR", city |-> "VARCHAR",
         state |-> "VARCHAR", country |-> "VARCHAR", customer_segment |-> "VARCHAR",
         acquisition_channel |-> "VARCHAR"],
     products |->
        [product_id |-> "VARCHAR", product_name |-> "VARCHAR", category |-> "VARCHAR",
         price |-> "DOUBLE", cost |-> "DOUBLE", stock_quantity |-> "BIGINT"],
     orders |->
        [order_id |-> "VARCHAR", customer_id |-> "VARCHAR", order_date |-> "DATE",
         total_amount |-> "DOUBLE", status |-> "VARCHAR", payment_method |-> "VARCHAR"],
     order_items |->
        [order_item_id |-> "VARCHAR", order_id |-> "VARCHAR", product_id |-> "VARCHAR",
         quantity |-> "BIGINT", unit_price |-> "DOUBLE", total_price |-> "DOUBLE"],
     web_sessions |->
        [session_id |-> "VARCHAR", customer_id |-> "VARCHAR", session_date |-> "DATE",
         page_views |-> "BIGINT", session_duration_minutes |-> "BIGINT",
         device_type |-> "VARCHAR", traffic_source |-> "VARCHAR",
         converted |-> "BOOLEAN"],
     product_performance |->
        [product_id |-> "VARCHAR", product_name |-> "VARCHAR", category |-> "VARCHAR",
         price |-> "DOUBLE", units_sold |-> "HUGEINT", total_quantity_sold |-> "HUGEINT",
         total_revenue |-> "DOUBLE", orders_count |-> "BIGINT",
         times_ordered |-> "BIGINT", avg_selling_price |-> "DOUBLE",
         avg_profit_per_unit |-> "DOUBLE", performance_tier |-> "VARCHAR"],
     customer_ltv |->
        [customer_id |-> "VARCHAR", customer_segment |-> "VARCHAR",
         acquisition_channel |-> "VARCHAR", monetary |-> "DOUBLE",
         lifetime_value |-> "DOUBLE", frequency |-> "BIGINT",
         total_orders |-> "BIGINT", last_order_date |-> "DATE"]]

TestTableNames == <<"customers", "products", "orders", "order_items", "web_sessions", "product_performance">>
TestViewNames == <<"customer_ltv">>

\* customers_data[i], products_data[i] (i from 0); the random choices are
\* fixed to the i-th value of each list, prices to 10.00 and 499.99.
TestCustomer(i) ==
    [customer_id |-> "CUST_" \o Zfill(i, 4), first_name |-> "Customer",
     last_name |-> "Test", email |-> "customer@test.com",
     registration_date |-> base_date, city |-> "TestCity", state |-> "TestState",
     country |-> "TestCountry", customer_segment |-> segments[(i % 4) + 1],
     acquisition_channel |-> channels[(i % 6) + 1]]

TestProduct(i) ==
    [product_id |-> "PROD_" \o Zfill(i, 4), product_name |-> "Test Product",
     category |-> categories[(i % 4) + 1],
     price |-> IF i % 2 = 0 THEN 1000 ELSE 49999,
     cost |-> 500, stock_quantity |-> 0]

\* order_items_data of order i: one item (j = 0) of product product_idx.
TestItem(i, products_t, product_idx, quantity) ==
    LET price == products_t[product_idx + 1].price IN
    [order_item_id |-> "ITEM_" \o Zfill(i, 6) \o "_0",
     order_id |-> "ORD_" \o Zfill(i, 6),
     product_id |-> "PROD_" \o Zfill(product_idx, 4),
     quantity |-> quantity, unit_price |-> price, total_price |-> price * quantity]

\* orders_data[i]: total_amount is the rounded sum of its items' totals.
TestOrder(i, customer_idx, days, status, item) ==
    [order_id |-> "ORD_" \o Zfill(i, 6),
     customer_id |-> "CUST_" \o Zfill(customer_idx, 4),
     order_date |-> base_date + days,
     total_amount |-> item.total_price,
     status |-> status, payment_method |-> "credit_card"]

TestSession(i, customer_idx, days, converted) ==
    [session_id |-> "SESS_" \o Zfill(i, 6),
     customer_id |-> "CUST_" \o Zfill(customer_idx, 4),
     session_date |-> base_date + days, page_views |-> 1,
     session_duration_minutes |-> 1, device_type |-> "desktop",
     traffic_source |-> "organic", converted |-> converted]

\* CREATE TABLE product_performance AS ... LEFT JOIN ... GROUP BY: one row
\* per product, the sums COALESCEd to 0 for a product never ordered.
TestProductPerformance(products_t, items_t) ==
    [k \in DOMAIN products_t |->
        LET sold == {i \in DOMAIN items_t :
                        items_t[i].product_id = products_t[k].product_id}
        IN  [product_id |-> products_t[k].product_id,
             category |-> products_t[k].category,
             total_quantity_sold |->
                 SumOver([i \in DOMAIN items_t |-> items_t[i].quantity], sold),
             total_revenue |->
                 SumOver([i \in DOMAIN items_t |-> items_t[i].total_price], sold),
             times_ordered |-> Cardinality({items_t[i].order_id : i \in sold})]]

\* The database file create_test_database leaves.
TestStore(customers_t, products_t, orders_t, items_t, sessions_t) ==
    [csv |-> <<>>, csv_rows |-> <<>>, db |-> TRUE,
     tables |-> TestTableNames,
     table_rows |-> <<customers_t, products_t, orders_t, items_t, sessions_t,
                      TestProductPerformance(products_t, items_t)>>,
     views |-> TestViewNames,
     schema |-> TestSchema]

\* The state after create_test_database: orders draw their day offset
\* (randint(0, 365)) and status, the database its one product ordered and
\* its sessions' conversions.
InitTestDb ==
    \E no \in {1, MaxOrders}, product_idx \in 0..(MaxProducts - 1), conv \in BOOLEAN :
      \E draws \in [1..no -> {0, 365} \X {"Completed", "Cancelled"}] :
        /\ cfg = Config(MaxCustomers, MaxProducts, no, base_date, base_date + 365)
        /\ customers = [k \in 1..MaxCustomers |-> TestCustomer(k - 1)]
        /\ products = [k \in 1..MaxProducts |-> TestProduct(k - 1)]
        /\ order_items = [k \in 1..no |-> TestItem(k - 1, products, product_idx, 1)]
        /\ orders = [k \in 1..no |->
                        TestOrder(k - 1, 0, draws[k][1], draws[k][2], order_items[k])]
        /\ sessions = [k \in 1..MaxSessions |->
                          TestSession(k - 1, 0, 0, conv /\ k % 2 = 0)]
        /\ store = TestStore(customers, products, orders, order_items, sessions)
        /\ loc = NoLoc
        /\ rng = Seed
        /\ runs = <<>>
        /\ resp = NoResp
        /\ db_manager = NewManager
        /\ conns = <<>>
        /\ ret = NoCall
        /\ pc = "ready"
        /\ err = ""

SpecTestDb == InitTestDb /\ [][NextApi]_vars

\* A request that gives none of the optional parameters.
DefaultRequest(r) ==
    CASE r.endpoint = "overview" -> r.params.date_from = Null /\ r.params.date_to = Null
      [] r.endpoint = "revenue" ->
           /\ r.params.date_from = Null
           /\ r.params.date_to = Null
           /\ r.params.group_by = "month"
      [] r.endpoint = "customers" -> r.params.segment = ""
      [] r.endpoint = "products" ->
           r.params.category = "" /\ r.params.limit = DefaultProductLimit
      [] r.endpoint = "marketing" -> TRUE
      [] r.endpoint = "recent-orders" -> r.params.limit = DefaultLimit
      [] OTHER -> FALSE

\* C30: against the database create_test_database builds, every query of
\* every endpoint finds the relations and columns it names, and every
\* endpoint called without optional parameters answers 200: no query and
\* no conversion raises.
C30_TestDbServesEndpoints ==
    (IsTestDb(store) /\ DefaultRequest(resp))
        => /\ resp.status = 200
           /\ \A k \in DOMAIN resp.queries : Binds(resp.queries[k], store)

====
